---- MODULE Spec2Model ----
(***************************************************************************)
(* Deterministic well-log anomaly analysis (ai-service/app/analysis.py and *)
(* its helpers in analysis_utils.py).  One invocation of analyze() is a    *)
(* sequence of steps over its local variables; the locals of the           *)
(* invocations that a serving layer runs side by side are kept per         *)
(* invocation p \in Inv.                                                   *)
(*                                                                         *)
(* Numbers.  Depths are integers (depth units).  Interval-level scores and *)
(* agreement are fixed point in 1/1000 (Milli), global scores in           *)
(* 1/1000000 (Micro).  The per-sample composite score of a curve (the      *)
(* result of clip, rolling mean, robust z and gradient, analysis.py        *)
(* 179-190) is read from scoreIn, the shape label of a run from typeIn and *)
(* the number of clipped points from clipIn: they are functions of the     *)
(* prepared data that the model takes as part of the input.                *)
(***************************************************************************)
EXTENDS Integers, Sequences, FiniteSets, TLC

\* ------------------------------------------------------------------ values
NaN == -1
None == -2
Absent == -3

IsFinite(x) == x >= 0

CurveNames == {"GR", "RHOB", "NPHI"}
Inv == {1, 2}

\* ------------------------------------------------------------------ helpers
Min2(a, b) == IF a <= b THEN a ELSE b
Max2(a, b) == IF a >= b THEN a ELSE b
Abs(a) == IF a < 0 THEN -a ELSE a
\* variant: np.clip left out
ClipNone(x, lo, hi) == x

Clip(x, lo, hi) == Max2(lo, Min2(x, hi))

RECURSIVE SumSeq(_)
SumSeq(s) ==
    IF Len(s) = 0 THEN 0
    ELSE IF Len(s) = 1 THEN s[1]
    ELSE LET h == Len(s) \div 2
         IN  SumSeq(SubSeq(s, 1, h)) + SumSeq(SubSeq(s, h + 1, Len(s)))

\* the elements of s at the positions where mask is TRUE, in order (x[mask])
Compress(s, mask) ==
    LET idx == SelectSeq([k \in 1..Len(s) |-> k], LAMBDA k : mask[k])
    IN  [q \in 1..Len(idx) |-> s[idx[q]]]

\* round(num/den) to the nearest integer, ties to even (Python round, np.round)
RoundDiv(num, den) ==
    LET q == num \div den
        r == num % den
    IN  IF 2 * r < den THEN q
        ELSE IF 2 * r > den THEN q + 1
        ELSE IF q % 2 = 0 THEN q ELSE q + 1

\* ------------------------------------------------------------------ state
VARIABLES
    sortTies,               \* the order this build's np.argsort leaves equal keys in
    rows, curves, from_depth, to_depth,          \* arguments of analyze, per invocation
    scoreIn, typeIn, clipIn,                     \* numeric stage read as input (see above)
    pc,                                          \* position of each invocation
    ord_idx, uniq, depths, data, n,              \* curve preparation
    ci, per_curve_scores, raw_intervals, curve_masks,
    clipped_points_total, raw_points_total,      \* per-curve detection loop
    agreement_mask, findings, all_ranked_findings,
    anomaly_score, detection_conf, severity_conf, severity_band,
    dq, summary_args, insight_args, result,
    call, ret, lpc,         \* one call of a helper function: arguments, result, position
    settings,               \* ai_provider: the keys and the preferred model in force
    client, provider, model_name, client_sig,    \* ai_provider: the module-level cache
    built, got,             \* clients constructed so far; what the last call found and returned
    llm_log                 \* copilot_service: the models called so far, in order

inputs == <<sortTies, rows, curves, from_depth, to_depth, scoreIn, typeIn, clipIn>>
prepared == <<ord_idx, uniq, depths, data, n>>
detection == <<ci, per_curve_scores, raw_intervals, curve_masks,
               clipped_points_total, raw_points_total>>
consolidated == <<agreement_mask, findings, all_ranked_findings>>
globals == <<anomaly_score, detection_conf, severity_conf, severity_band, dq>>
outputs == <<summary_args, insight_args, result>>
services == <<settings, client, provider, model_name, client_sig, built, got, llm_log>>
library == <<call, ret, lpc, services>>
vars == <<inputs, pc, prepared, detection, consolidated, globals, outputs, library>>

\* no helper function is called on its own while analyze runs
\* ai_provider.py 9-12: the module as imported, no client, nothing configured
NoClient == [id |-> 0, api_key |-> <<>>, base_url |-> ""]

ServicesOff ==
    /\ settings = [GROQ_API_KEY |-> <<>>, OPENAI_API_KEY |-> <<>>, LLM_PRIMARY |-> <<>>]
    /\ client = NoClient /\ provider = "NONE" /\ model_name = <<>> /\ client_sig = <<>>
    /\ built = 0 /\ got = <<>>
    /\ llm_log = <<>>

LibraryOff == call = <<>> /\ ret = <<>> /\ lpc = "off" /\ ServicesOff

\* ------------------------------------------------------------------ constants of the code
Milli == 10 * 100
Micro == Milli * Milli
MIN_ROWS == 20

\* ------------------------------------------------------------------ curve preparation
\* analysis.py 30: depths_raw
DepthsRaw(rs) == [i \in 1..Len(rs) |-> rs[i].depth]

\* variant: the rows are taken in the order supplied, without sorting
argsortIdentity(d) == [k \in 1..Len(d) |-> k]

\* np.argsort(depths_raw), default kind "quicksort": the result sorts the keys; the
\* order of equal keys is the build's (sortTies), the same on every call.
Before(d, j, i) ==
    \/ d[j] < d[i]
    \/ d[j] = d[i] /\ (IF sortTies = "input_order" THEN j < i ELSE j > i)

argsort(d) ==
    LET rank == [i \in 1..Len(d) |-> Cardinality({j \in 1..Len(d) : Before(d, j, i)})] \o <<>>
    IN  [k \in 1..Len(d) |-> CHOOSE i \in 1..Len(d) : rank[i] = k - 1]

\* analysis.py 35-36: uniq = ones; uniq[1:] = depths[1:] > depths[:-1]
UniqMask(sorted) == [k \in 1..Len(sorted) |-> k = 1 \/ sorted[k] > sorted[k - 1]]

\* rows[i].values.get(c, np.nan) through np.array(..., dtype=float): None becomes nan
ValueOf(row, c) ==
    LET v == row.values[c]
    IN  IF v = Absent \/ v = None THEN NaN ELSE v

\* variant: the curve values are read in the order supplied, not in depth order
CurveArrayUnsorted(rs, ord, um, c) ==
    Compress([k \in 1..Len(ord) |-> ValueOf(rs[k], c)], um)

\* analysis.py 45-46
CurveArray(rs, ord, um, c) ==
    Compress([k \in 1..Len(ord) |-> ValueOf(rs[ord[k]], c)], um)

CurveSet(cs) == {cs[i] : i \in 1..Len(cs)}

PrepareCurves(rs, cs) ==
    LET ord == argsort(DepthsRaw(rs))
        sorted == [k \in 1..Len(ord) |-> rs[ord[k]].depth]
        um == UniqMask(sorted)
    IN  [ord_idx |-> ord,
         uniq |-> um,
         depths |-> Compress(sorted, um),
         data |-> [c \in CurveSet(cs) |-> CurveArray(rs, ord, um, c)]]

\* ------------------------------------------------------------------ analysis_utils
\* _band
Band(value, t1, t2, t3) ==
    IF value >= t3 THEN "CRITICAL"
    ELSE IF value >= t2 THEN "HIGH"
    ELSE IF value >= t1 THEN "MODERATE"
    ELSE "LOW"

\* np.diff(depths) restricted to the positive steps
PositiveSteps(ds) ==
    LET dd == [k \in 1..(Len(ds) - 1) |-> ds[k + 1] - ds[k]]
    IN  SelectSeq(dd, LAMBDA x : x > 0)

\* twice np.median of a non-empty sequence of integers
Median2(s) ==
    LET t == SortSeq(s, LAMBDA a, b : a < b)
        m == Len(t)
    IN  IF m % 2 = 1 THEN 2 * t[(m + 1) \div 2] ELSE t[m \div 2] + t[m \div 2 + 1]

CountFinite(arr) == Cardinality({k \in 1..Len(arr) : IsFinite(arr[k])})

\* float(np.mean(np.isfinite(arr))) in Micro
ValidRate(arr) == IF Len(arr) = 0 THEN 0 ELSE (CountFinite(arr) * Micro) \div Len(arr)

RECURSIVE SumOver(_, _)
SumOver(f, S) ==
    IF S = {} THEN 0 ELSE LET x == CHOOSE y \in S : TRUE IN f[x] + SumOver(f, S \ {x})

LOW_ROWS == 200

compute_data_quality(dat, ds, clipped, raw_total) ==
    IF DOMAIN dat = {} THEN
        [nullFraction |-> Micro, effectiveRows |-> 0, depthResolutionMedian |-> None,
         clippedFraction |-> 0, qualityBand |-> "LOW",
         warnings |-> <<"No curve data available.">>]
    ELSE
        LET rates == [c \in DOMAIN dat |-> ValidRate(dat[c])]
            mean_valid == SumOver(rates, DOMAIN dat) \div Cardinality(DOMAIN dat)
            null_frac == Clip(Micro - mean_valid, 0, Micro)
            effective_rows ==
                Cardinality({k \in 1..Len(ds) : \E c \in DOMAIN dat : IsFinite(dat[c][k])})
            dd == PositiveSteps(ds)
            depth_res2 == IF Len(dd) > 0 THEN Median2(dd) ELSE None
            clipped_frac ==
                IF raw_total > 0 THEN Clip((clipped * Micro) \div raw_total, 0, Micro) ELSE 0
            quality_score ==
                (45 * (Micro - null_frac) + 30 * (Micro - clipped_frac)
                 + 25 * Clip((effective_rows * Micro) \div 2000, 0, Micro)) \div 100
            q_band == IF quality_score >= 720000 THEN "HIGH"
                      ELSE IF quality_score >= 480000 THEN "MEDIUM" ELSE "LOW"
            warnings ==
                (IF null_frac > 350000
                    THEN <<"High missing-value rate may reduce reliability.">> ELSE <<>>)
                \o (IF clipped_frac > 200000
                    THEN <<"Significant outlier clipping detected; review sensor quality.">>
                    ELSE <<>>)
                \o (IF effective_rows < LOW_ROWS
                    THEN <<"Low effective row count; consider wider depth interval.">>
                    ELSE <<>>)
                \o (IF depth_res2 # None /\ depth_res2 > 6
                    THEN <<"Coarse depth sampling may miss narrow events.">> ELSE <<>>)
                \o (IF mean_valid < 550000
                    THEN <<"Many curve samples are sparse; cross-curve agreement may be unstable.">>
                    ELSE <<>>)
        IN  [nullFraction |-> RoundDiv(null_frac, 100) * 100,
             effectiveRows |-> effective_rows,
             depthResolutionMedian |-> depth_res2,
             clippedFraction |-> RoundDiv(clipped_frac, 100) * 100,
             qualityBand |-> q_band,
             warnings |-> warnings]

\* analysis_summary.compute_curve_statistics: the order statistics of the finite samples
\* (count, min, max, usableRatio); the moments and percentiles are not carried.
SeqMin(s) == CHOOSE x \in {s[k] : k \in 1..Len(s)} : \A k \in 1..Len(s) : x <= s[k]
SeqMax(s) == CHOOSE x \in {s[k] : k \in 1..Len(s)} : \A k \in 1..Len(s) : x >= s[k]

compute_curve_statistics(ds, dat, cs) ==
    [c \in CurveSet(cs) |->
        LET v == SelectSeq(dat[c], IsFinite)
            base_count == Min2(Len(ds), Len(dat[c]))
        IN  IF Len(v) = 0
            THEN [count |-> 0, min |-> None, max |-> None, usableRatio |-> 0]
            ELSE [count |-> Len(v), min |-> SeqMin(v), max |-> SeqMax(v),
                  usableRatio |-> RoundDiv(Len(v) * 10000, Max2(1, base_count))]]

\* ------------------------------------------------------------------ per-curve detection
\* contiguous_runs: the maximal runs <<i, j>> of TRUE in mask, scanning from index i
RECURSIVE RunsFrom(_, _)
RunsFrom(mask, i) ==
    LET set == {k \in i..Len(mask) : mask[k]}
    IN  IF set = {} THEN <<>>
        ELSE LET s == CHOOSE k \in set : \A m \in set : k <= m
                 j == CHOOSE e \in s..Len(mask) :
                          /\ \A k \in s..e : mask[k]
                          /\ (e = Len(mask) \/ ~mask[e + 1])
             IN  <<<<s, j>>>> \o RunsFrom(mask, j + 1)

\* variant: the end of a run taken as the index after its last flagged sample
contiguous_runs_open(mask) ==
    LET rs == RunsFrom(mask, 1) IN [k \in 1..Len(rs) |-> <<rs[k][1], rs[k][2] + 1>>]

contiguous_runs(mask) == RunsFrom(mask, 1)

\* 100 * np.nanpercentile(score, q) of a non-empty all-finite array (linear interpolation
\* between the order statistics at position q/100 * (n - 1))
Percentile100(score, q) ==
    LET t == SortSeq(score, LAMBDA a, b : a < b)
        pos == q * (Len(t) - 1)
        lo == pos \div 100 + 1
        fr == pos % 100
    IN  IF fr = 0 THEN 100 * t[lo] ELSE 100 * t[lo] + fr * (t[lo + 1] - t[lo])

SCORE_FLOOR == 2600

\* analysis.py 193: thr = max(2.6, p92), times 100
Threshold100(score) == Max2(100 * SCORE_FLOOR, Percentile100(score, 92))

\* analysis.py 194: mask = score >= thr
AnomalyMask(score) ==
    LET thr == Threshold100(score) IN [k \in 1..Len(score) |-> 100 * score[k] >= thr]

\* analysis.py 211: pc = clip(p95 / 7, 0, 1), in Micro
CurveProxy(score) == Clip((Percentile100(score, 95) * 10) \div 7, 0, Micro)

\* analysis.py 153-159: twice the median depth step (1.0 when there is none) and the
\* two adaptive constants
Step2(ds) == LET dd == PositiveSteps(ds) IN IF Len(dd) > 0 THEN Median2(dd) ELSE 2
MinRun(ds) == Max2(4, RoundDiv(12, Step2(ds)))
GapMerge(ds) == Max2(2, RoundDiv(8, Step2(ds)))

\* classify_interval on a run of at least 4 samples; shape carries the outcome of the
\* numeric tests: peaky (peakiness / stdev > 2.0) and the label the later tests give
SPIKE_SPAN == 12

classify_interval(shape, ds, i, j) ==
    IF j - i + 1 < 4 THEN "spike"
    ELSE IF ds[j] - ds[i] < SPIKE_SPAN /\ shape.peaky THEN "spike"
    ELSE shape.rest

\* analysis.py 197-208: the raw intervals of one curve
RawIntervalsOf(c, score, shapes, ds) ==
    LET all == contiguous_runs(AnomalyMask(score))
        min_run == MinRun(ds)
        runs == SelectSeq(all, LAMBDA r : r[2] - r[1] + 1 >= min_run)
    IN  [k \in 1..Len(runs) |->
            LET i == runs[k][1]
                j == runs[k][2]
            IN  [i |-> i, j |-> j,
                 score |-> SumSeq(SubSeq(score, i, j)) \div (j - i + 1),
                 curves |-> {c},
                 type |-> classify_interval(shapes[IF k % 2 = 1 THEN 1 ELSE 2], ds, i, j)]]

\* variant: no curve is ever below the floor
TooSparseNever(arr) == FALSE

\* analysis.py 175: finite_ratio < 0.30
TooSparse(arr) == 10 * CountFinite(arr) < 3 * Len(arr)

\* clip_percentile: the count of changed points (none below 20 finite values)
ClippedPoints(arr, changed) == IF CountFinite(arr) < 20 THEN 0 ELSE changed

\* ------------------------------------------------------------------ consolidation
\* variant: reverse=True ignored
StableSortAscending(seq, keys, desc) ==
    LET m == Len(seq)
        before(a, b) == keys[a] < keys[b] \/ (keys[a] = keys[b] /\ a < b)
        rank == [a \in 1..m |-> Cardinality({b \in 1..m : before(b, a)})] \o <<>>
    IN  [k \in 1..m |-> seq[CHOOSE a \in 1..m : rank[a] = k - 1]]

\* sorted(seq, key) of Python, keys[a] the key of seq[a]: stable; desc for reverse=True
StableSort(seq, keys, desc) ==
    LET m == Len(seq)
        before(a, b) ==
            \/ (IF desc THEN keys[a] > keys[b] ELSE keys[a] < keys[b])
            \/ keys[a] = keys[b] /\ a < b
        rank == [a \in 1..m |-> Cardinality({b \in 1..m : before(b, a)})] \o <<>>
    IN  [k \in 1..m |-> seq[CHOOSE a \in 1..m : rank[a] = k - 1]]

RECURSIVE MergeFold(_, _, _)
MergeFold(out, rest, max_gap_idx) ==
    IF rest = <<>> THEN out
    ELSE LET cur == Head(rest)
             prev == out[Len(out)]
             close == cur.i <= prev.j + max_gap_idx
             same_type == cur.type = prev.type
         IN  IF close /\ same_type
             THEN MergeFold([out EXCEPT ![Len(out)] =
                                 [prev EXCEPT !.j = Max2(prev.j, cur.j),
                                              !.score = Max2(prev.score, cur.score),
                                              !.curves = prev.curves \cup cur.curves]],
                            Tail(rest), max_gap_idx)
             ELSE MergeFold(Append(out, cur), Tail(rest), max_gap_idx)

\* variant: intervals are folded whatever their types
RECURSIVE MergeFoldAnyType(_, _, _)
MergeFoldAnyType(out, rest, max_gap_idx) ==
    IF rest = <<>> THEN out
    ELSE LET cur == Head(rest)
             prev == out[Len(out)]
         IN  IF cur.i <= prev.j + max_gap_idx
             THEN MergeFoldAnyType([out EXCEPT ![Len(out)] =
                                       [prev EXCEPT !.j = Max2(prev.j, cur.j),
                                                    !.score = Max2(prev.score, cur.score),
                                                    !.curves = prev.curves \cup cur.curves]],
                                   Tail(rest), max_gap_idx)
             ELSE MergeFoldAnyType(Append(out, cur), Tail(rest), max_gap_idx)

merge_intervals_any_type(raw, max_gap_idx) ==
    IF raw = <<>> THEN <<>>
    ELSE LET srt == StableSort(raw, [q \in 1..Len(raw) |-> raw[q].i], FALSE)
         IN  MergeFoldAnyType(<<Head(srt)>>, Tail(srt), max_gap_idx)

merge_intervals(raw, max_gap_idx) ==
    IF raw = <<>> THEN <<>>
    ELSE LET srt == StableSort(raw, [q \in 1..Len(raw) |-> raw[q].i], FALSE)
         IN  MergeFold(<<Head(srt)>>, Tail(srt), max_gap_idx)

\* float(np.mean(agreement_mask[i:j + 1])), in Milli
AvgAgree(agree, i, j) ==
    IF Len(agree) = 0 THEN 0 ELSE SumSeq(SubSeq(agree, i, j)) \div (j - i + 1)

\* np.log1p(x) for x in Milli, in Milli: tabulated every 0.5 up to 20.0 and interpolated
Log1pTable == <<0, 405, 693, 916, 1099, 1253, 1386, 1504, 1609, 1705, 1792, 1872, 1946, 2015, 2079, 2140, 2197, 2251, 2303, 2351, 2398, 2442, 2485, 2526, 2565, 2603, 2639, 2674, 2708, 2741, 2773, 2803, 2833, 2862, 2890, 2918, 2944, 2970, 2996, 3020, 3045>>

Log1p(x) ==
    LET k == x \div 500
        r == x % 500
    IN  IF k >= 40 THEN Log1pTable[41]
        ELSE Log1pTable[k + 1] + (r * (Log1pTable[k + 2] - Log1pTable[k + 1])) \div 500

\* analysis.py 224-247: one merged interval as a finding
FindingOf(it, agree, ds) ==
    LET avg_agree == AvgAgree(agree, it.i, it.j)
        boosted == it.score + (it.score * 35 * avg_agree) \div (100 * Milli)
        int_conf == Clip(350 + Log1p(Max2(boosted, 0)) \div 10 + (18 * avg_agree) \div 100,
                         350, 950)
    IN  [curve |-> it.curves,
         fromDepth |-> ds[it.i],
         toDepth |-> ds[it.j],
         confidence |-> int_conf,
         score |-> boosted,
         reason |-> it.type,
         curvesSupporting |-> Cardinality(it.curves),
         width |-> ds[it.j] - ds[it.i],
         agreement |-> avg_agree]

\* interval_iou: inter / (union + 1e-9)
Inter(a0, a1, b0, b1) == Max2(0, Min2(a1, b1) - Max2(a0, b0))
Hull(a0, a1, b0, b1) == Max2(a1, b1) - Min2(a0, b0)

\* interval_iou(a0, a1, b0, b1) >= thr100 / 100.  inter and union are integers and
\* 0 < thr100 * 1e-9 < 1, so 100 * inter >= thr100 * (union + 1e-9) is the strict
\* comparison of the integers.
IouAtLeast(a0, a1, b0, b1, thr100) ==
    100 * Inter(a0, a1, b0, b1) > thr100 * Hull(a0, a1, b0, b1)

IOU_THR == 55
MIN_SEP == 22
MAX_KEEP == 6
CENTER_TOLERANCE == 10

\* variant: each finding compared with every finding of the list, itself included
NmsFoldAgainstAll(kept, rest, thr100) ==
    SelectSeq(rest, LAMBDA f : \A q \in 1..Len(rest) :
                 ~IouAtLeast(f.fromDepth, f.toDepth,
                             rest[q].fromDepth, rest[q].toDepth, thr100))

RECURSIVE NmsFold(_, _, _)
NmsFold(kept, rest, thr100) ==
    IF rest = <<>> THEN kept
    ELSE LET f == Head(rest)
             keep == \A q \in 1..Len(kept) :
                        ~IouAtLeast(f.fromDepth, f.toDepth,
                                    kept[q].fromDepth, kept[q].toDepth, thr100)
         IN  NmsFold(IF keep THEN Append(kept, f) ELSE kept, Tail(rest), thr100)

\* variant: any overlap suppresses
nms_intervals_any_overlap(fs, thr100) == NmsFold(<<>>, fs, 0)

nms_intervals(fs, thr100) == NmsFold(<<>>, fs, thr100)

\* twice the center 0.5 * (fromDepth + toDepth)
Center2(f) == f.fromDepth + f.toDepth

RECURSIVE ZoneFold(_, _, _, _)
ZoneFold(out, rest, min_sep, max_keep) ==
    IF rest = <<>> THEN out
    ELSE LET f == Head(rest)
             far == \A q \in 1..Len(out) : Abs(Center2(f) - Center2(out[q])) >= 2 * min_sep
             nxt == IF far THEN Append(out, f) ELSE out
         IN  IF Len(nxt) >= max_keep THEN nxt
             ELSE ZoneFold(nxt, Tail(rest), min_sep, max_keep)

\* variant: the cap is applied without the distance test
KeepWithoutSeparation(fs, min_sep, max_keep) == SubSeq(fs, 1, Min2(Len(fs), max_keep))

\* variant: the distance test without the cap
enforce_zone_separation_uncapped(fs, min_sep, max_keep) ==
    ZoneFold(<<>>, fs, min_sep, Len(fs) + 1)

enforce_zone_separation(fs, min_sep, max_keep) == ZoneFold(<<>>, fs, min_sep, max_keep)

annotate_interval_stability(fs, all_fs, tol) ==
    [q \in 1..Len(fs) |->
        LET f == fs[q]
            neighbors == Cardinality({a \in 1..Len(all_fs) :
                             Abs(Center2(f) - Center2(all_fs[a])) <= 2 * tol})
            width == Max2(0, f.toDepth - f.fromDepth)
            st_score == Clip(
                (35 * Min2(Micro, (neighbors * Micro) \div 4)
                 + 30 * Min2(Micro, (width * Micro) \div 18)
                 + 25 * Min2(Micro, f.agreement * Milli)
                 + 10 * Min2(Micro, (f.curvesSupporting * Micro) \div 2)) \div 100,
                0, Micro)
            stability == IF st_score >= 750000 THEN "stable"
                         ELSE IF st_score >= 520000 THEN "moderate" ELSE "unstable"
        IN  [curve |-> f.curve, fromDepth |-> f.fromDepth, toDepth |-> f.toDepth,
             confidence |-> f.confidence, score |-> f.score, reason |-> f.reason,
             curvesSupporting |-> f.curvesSupporting, width |-> f.width,
             agreement |-> f.agreement,
             stability |-> stability, stabilityScore |-> RoundDiv(st_score, Milli)]]

probability_bucket(score, conf) ==
    IF conf >= 800 /\ score >= 8500 THEN "High"
    ELSE IF conf >= 640 /\ score >= 5500 THEN "Medium"
    ELSE "Low"

\* variant: a score of exactly 5.0 counted as strong
PriorityInclusive(score) ==
    IF score >= 5000 THEN "strong" ELSE IF score >= 3000 THEN "elevated" ELSE "watch"

\* analysis.py 257-266
Priority(score) ==
    IF score > 5000 THEN "strong" ELSE IF score >= 3000 THEN "elevated" ELSE "watch"

Labelled(fs) ==
    [q \in 1..Len(fs) |->
        [curve |-> fs[q].curve, fromDepth |-> fs[q].fromDepth, toDepth |-> fs[q].toDepth,
         confidence |-> fs[q].confidence, score |-> fs[q].score, reason |-> fs[q].reason,
         curvesSupporting |-> fs[q].curvesSupporting, width |-> fs[q].width,
         agreement |-> fs[q].agreement,
         stability |-> fs[q].stability, stabilityScore |-> fs[q].stabilityScore,
         priority |-> Priority(fs[q].score),
         probability |-> probability_bucket(fs[q].score, fs[q].confidence)]]

\* ------------------------------------------------------------------ global metrics
MeanSeq(s, default) == IF Len(s) = 0 THEN default ELSE SumSeq(s) \div Len(s)

\* analysis.py 270-272, in Micro
AnomalyScore(pcs, agree) ==
    LET base_score == MeanSeq(pcs, 0)
        agree_global == MeanSeq(agree, 0) * Milli
    IN  Clip((78 * base_score + 22 * agree_global) \div 100, 0, Micro)

\* analysis.py 277-286
DetectionConf(dat, fs, agree) ==
    LET dqs == IF DOMAIN dat = {} THEN 0
               ELSE SumOver([c \in DOMAIN dat |-> ValidRate(dat[c])], DOMAIN dat)
                        \div Cardinality(DOMAIN dat)
        stab == MeanSeq([q \in 1..Len(fs) |->
                            Min2(Micro, ((fs[q].toDepth - fs[q].fromDepth) * Micro) \div 20)],
                        200000)
        agree_global == MeanSeq(agree, 0) * Milli
    IN  Clip((40 * dqs + 30 * stab + 30 * agree_global) \div 100, 250000, 950000)

\* analysis.py 281, 288-291
SeverityConf(anomaly, fs) ==
    LET strength == MeanSeq([q \in 1..Len(fs) |-> Min2(Micro, (fs[q].score * Milli) \div 6)],
                            200000)
    IN  Clip((55 * anomaly + 45 * strength) \div 100, 200000, 920000)

\* round(x, 3) of a Micro value, in Milli
Round3(x) == RoundDiv(x, Milli)

\* ------------------------------------------------------------------ steps of analyze
Set(v, p, x) == [v EXCEPT ![p] = x]

\* variant: the short-circuit also taken at exactly 20 rows
TooFewRowsInclusive(len) == len <= MIN_ROWS

\* analysis.py 49: if n < 20
TooFewRows(len) == len < MIN_ROWS

\* analysis.py 30-47
Prepare(p) ==
    /\ pc[p] = "start"
    /\ \E pr \in {PrepareCurves(rows[p], curves[p])} :
           /\ ord_idx' = Set(ord_idx, p, pr.ord_idx)
           /\ uniq' = Set(uniq, p, pr.uniq)
           /\ depths' = Set(depths, p, pr.depths)
           /\ data' = Set(data, p, pr.data)
           /\ n' = Set(n, p, Len(pr.depths))
           /\ pc' = Set(pc, p, IF TooFewRows(Len(pr.depths)) THEN "insufficient" ELSE "detect")
    /\ UNCHANGED <<library, inputs, detection, consolidated, globals, outputs>>

\* analysis.py 297 and 60-61: event density per 1000 depth units, in Milli
EventDensity(count, lo, hi) == (count * Milli * Milli) \div Max2(hi - lo, 1)

\* the arguments build_summary_bullets / build_summary_paragraph are called with
SummaryArgs(p, stats) ==
    [from_depth |-> from_depth[p], to_depth |-> to_depth[p], row_count |-> n[p],
     curves |-> curves[p], curve_stats |-> stats, findings |-> findings[p],
     anomaly_score |-> anomaly_score[p], detection_conf |-> detection_conf[p],
     severity_conf |-> severity_conf[p], severity_band |-> severity_band[p],
     data_quality |-> dq[p],
     event_density |-> EventDensity(Len(findings[p]), from_depth[p], to_depth[p])]

\* the arguments build_insight is called with
InsightArgs(p) ==
    [from_depth |-> from_depth[p], to_depth |-> to_depth[p], curves |-> curves[p],
     depths |-> depths[p], data |-> data[p], findings |-> findings[p],
     anomaly_score |-> anomaly_score[p], detection_conf |-> detection_conf[p],
     severity_conf |-> severity_conf[p], severity_band |-> severity_band[p]]

\* analysis_insight.py 156-171: the shows of the insight bundle
Shows(fs) ==
    [q \in 1..Min2(Len(fs), MAX_KEEP) |->
        [fromDepth |-> fs[q].fromDepth, toDepth |-> fs[q].toDepth,
         probability |-> fs[q].probability, reason |-> fs[q].reason,
         stability |-> fs[q].stability, score |-> fs[q].score,
         priority |-> fs[q].priority]]

\* variant: the data-quality warnings are not appended
LimitationsBaseOnly(base, warnings) == base

\* analysis.py 98-101 and 344-348: the fixed limitations, then the warnings
Limitations(base, warnings) == base \o warnings

\* analysis.py 103-135 and 350-382 with 137-149 and 384-396
Bundle(p, sargs, iargs, recommendations, limitations) ==
    [modelVersion |-> "det-v4",
     eventCount |-> Len(findings[p]),
     eventDensityPer1000ft |-> sargs.event_density,
     anomalyScore |-> Round3(anomaly_score[p]),
     confidence |-> Round3(detection_conf[p]),
     detectionConfidence |-> Round3(detection_conf[p]),
     severityConfidence |-> Round3(severity_conf[p]),
     severityBand |-> severity_band[p],
     dataQuality |-> dq[p],
     curveStatistics |-> sargs.curve_stats,
     summary |-> sargs,
     intervalFindings |-> findings[p],
     recommendations |-> recommendations,
     limitations |-> Limitations(limitations, dq[p].warnings),
     insight |-> [args |-> iargs, shows |-> Shows(iargs.findings)]]

\* analysis.py 49-62: the scores of the insufficient-data branch, guard included
Insufficient(p) ==
    /\ pc[p] = "insufficient"
    /\ LET fs == <<>>
           a0 == 0
           s0 == 200000
       IN  /\ findings' = Set(findings, p, fs)
           /\ anomaly_score' = Set(anomaly_score, p, IF Len(fs) = 0 THEN Min2(a0, 490000) ELSE a0)
           /\ detection_conf' = Set(detection_conf, p, 250000)
           /\ severity_conf' = Set(severity_conf, p, IF Len(fs) = 0 THEN Min2(s0, 550000) ELSE s0)
           /\ severity_band' = Set(severity_band, p, Band(a0, 250000, 500000, 750000))
    /\ dq' = Set(dq, p, compute_data_quality(data[p], depths[p], 0,
                                             Max2(1, n[p] * Max2(1, Len(curves[p])))))
    /\ pc' = Set(pc, p, "summarize_short")
    /\ UNCHANGED <<library, inputs, prepared, detection, agreement_mask, all_ranked_findings, outputs>>

\* analysis.py 69-151
InsufficientReport(p) ==
    /\ pc[p] = "summarize_short"
    /\ \E sargs \in {SummaryArgs(p, compute_curve_statistics(depths[p], data[p], curves[p]))},
          iargs \in {InsightArgs(p)} :
           /\ summary_args' = Set(summary_args, p, sargs)
           /\ insight_args' = Set(insight_args, p, iargs)
           /\ result' = Set(result, p,
                  Bundle(p, sargs, iargs, <<"Increase selected depth range.">>,
                         <<"Too few rows for robust interpretation.",
                           "Use a wider depth window.">>))
    /\ pc' = Set(pc, p, "done")
    /\ UNCHANGED <<library, inputs, prepared, detection, consolidated, globals>>

\* variant: the points of a skipped curve are not counted
SkipCurveUncounted(p) ==
    /\ pc[p] = "detect"
    /\ ci[p] <= Len(curves[p])
    /\ TooSparse(data[p][curves[p][ci[p]]])
    /\ ci' = Set(ci, p, ci[p] + 1)
    /\ UNCHANGED <<library, inputs, pc, prepared, per_curve_scores, raw_intervals, curve_masks,
                   clipped_points_total, raw_points_total, consolidated, globals, outputs>>

\* analysis.py 169-177: a curve below the 30% finite floor is skipped
SkipCurve(p) ==
    /\ pc[p] = "detect"
    /\ ci[p] <= Len(curves[p])
    /\ TooSparse(data[p][curves[p][ci[p]]])
    /\ raw_points_total' = Set(raw_points_total, p, raw_points_total[p] + n[p])
    /\ ci' = Set(ci, p, ci[p] + 1)
    /\ UNCHANGED <<library, inputs, pc, prepared, per_curve_scores, raw_intervals, curve_masks,
                   clipped_points_total, consolidated, globals, outputs>>

\* analysis.py 169-212: one iteration of the detection loop
DetectCurve(p) ==
    /\ pc[p] = "detect"
    /\ ci[p] <= Len(curves[p])
    /\ \E c \in {curves[p][ci[p]]} : \E score \in {scoreIn[p][c]} :
           /\ ~TooSparse(data[p][c])
           /\ raw_points_total' = Set(raw_points_total, p, raw_points_total[p] + n[p])
           /\ clipped_points_total' = Set(clipped_points_total, p,
                  clipped_points_total[p] + ClippedPoints(data[p][c], clipIn[p][c]))
           /\ curve_masks' = Set(curve_masks, p,
                  [k \in DOMAIN curve_masks[p] \cup {c} |->
                      IF k = c THEN AnomalyMask(score) ELSE curve_masks[p][k]])
           /\ raw_intervals' = Set(raw_intervals, p,
                  raw_intervals[p] \o RawIntervalsOf(c, score, typeIn[p][c], depths[p]))
           /\ per_curve_scores' = Set(per_curve_scores, p,
                  Append(per_curve_scores[p], CurveProxy(score)))
    /\ ci' = Set(ci, p, ci[p] + 1)
    /\ UNCHANGED <<library, inputs, pc, prepared, consolidated, globals, outputs>>

\* variant: the fraction also taken when a single curve has a mask
AgreementMaskFromOne(masks, len) ==
    IF Cardinality(DOMAIN masks) >= 1
    THEN [k \in 1..len |->
             (Cardinality({c \in DOMAIN masks : masks[c][k]}) * Milli)
                 \div Cardinality(DOMAIN masks)]
    ELSE [k \in 1..len |-> 0]

\* analysis.py 215-218
AgreementMask(masks, len) ==
    IF Cardinality(DOMAIN masks) >= 2
    THEN [k \in 1..len |->
             (Cardinality({c \in DOMAIN masks : masks[c][k]}) * Milli)
                 \div Cardinality(DOMAIN masks)]
    ELSE [k \in 1..len |-> 0]

\* analysis.py 215-250: agreement, merge, findings, ranking
MergeAndRank(p) ==
    /\ pc[p] = "detect"
    /\ ci[p] > Len(curves[p])
    /\ \E agree \in {AgreementMask(curve_masks[p], n[p])} :
       \E merged \in {merge_intervals(raw_intervals[p], GapMerge(depths[p]))} :
       \E made \in {[q \in 1..Len(merged) |-> FindingOf(merged[q], agree, depths[p])]} :
       \E ranked \in {StableSort(made, [q \in 1..Len(made) |-> made[q].score], TRUE)} :
           /\ agreement_mask' = Set(agreement_mask, p, agree)
           /\ findings' = Set(findings, p, ranked)
           /\ all_ranked_findings' = Set(all_ranked_findings, p, ranked)
    /\ pc' = Set(pc, p, "nms")
    /\ UNCHANGED <<library, inputs, prepared, detection, globals, outputs>>

\* analysis.py 252
Nms(p) ==
    /\ pc[p] = "nms"
    /\ findings' = Set(findings, p, nms_intervals(findings[p], IOU_THR))
    /\ pc' = Set(pc, p, "separate")
    /\ UNCHANGED <<library, inputs, prepared, detection, agreement_mask, all_ranked_findings,
                   globals, outputs>>

\* variant: the kept centers live in one module-level list shared by all invocations
ZoneSeparationSharedCenters(p) ==
    /\ pc[p] = "separate"
    /\ \E q \in Inv \ {p} :
          \E seed \in {IF pc[q] \in {"annotate", "aggregate", "guard", "summarize", "done"}
                       THEN findings[q] ELSE <<>>} :
             \E all \in {ZoneFold(seed, findings[p], MIN_SEP, MAX_KEEP + Len(seed))} :
                findings' = Set(findings, p, SubSeq(all, Len(seed) + 1, Len(all)))
    /\ pc' = Set(pc, p, "annotate")
    /\ UNCHANGED <<library, inputs, prepared, detection, agreement_mask, all_ranked_findings,
                   globals, outputs>>

\* analysis.py 253
ZoneSeparation(p) ==
    /\ pc[p] = "separate"
    /\ findings' = Set(findings, p, enforce_zone_separation(findings[p], MIN_SEP, MAX_KEEP))
    /\ pc' = Set(pc, p, "annotate")
    /\ UNCHANGED <<library, inputs, prepared, detection, agreement_mask, all_ranked_findings,
                   globals, outputs>>

\* variant: stability annotated against the kept findings only
AnnotateAgainstKept(p) ==
    /\ pc[p] = "annotate"
    /\ findings' = Set(findings, p,
           Labelled(annotate_interval_stability(findings[p], findings[p], CENTER_TOLERANCE)))
    /\ pc' = Set(pc, p, "aggregate")
    /\ UNCHANGED <<library, inputs, prepared, detection, agreement_mask, all_ranked_findings,
                   globals, outputs>>

\* analysis.py 254-266
AnnotateAndLabel(p) ==
    /\ pc[p] = "annotate"
    /\ findings' = Set(findings, p,
           Labelled(annotate_interval_stability(findings[p], all_ranked_findings[p],
                                                CENTER_TOLERANCE)))
    /\ pc' = Set(pc, p, "aggregate")
    /\ UNCHANGED <<library, inputs, prepared, detection, agreement_mask, all_ranked_findings,
                   globals, outputs>>

\* analysis.py 270-304
Aggregate(p) ==
    /\ pc[p] = "aggregate"
    /\ \E a \in {AnomalyScore(per_curve_scores[p], agreement_mask[p])} :
           /\ anomaly_score' = Set(anomaly_score, p, a)
           /\ detection_conf' = Set(detection_conf, p,
                  DetectionConf(data[p], findings[p], agreement_mask[p]))
           /\ severity_conf' = Set(severity_conf, p, SeverityConf(a, findings[p]))
           /\ severity_band' = Set(severity_band, p, Band(a, 250000, 500000, 750000))
    /\ dq' = Set(dq, p, compute_data_quality(data[p], depths[p], clipped_points_total[p],
                                             Max2(1, raw_points_total[p])))
    /\ pc' = Set(pc, p, "guard")
    /\ UNCHANGED <<library, inputs, prepared, detection, consolidated, outputs>>

\* variant: the consistency guard left out
GuardSkipped(p) ==
    /\ pc[p] = "guard"
    /\ pc' = Set(pc, p, "summarize")
    /\ UNCHANGED <<library, inputs, prepared, detection, consolidated, globals, outputs>>

\* analysis.py 305-307: the consistency guard
Guard(p) ==
    /\ pc[p] = "guard"
    /\ anomaly_score' = Set(anomaly_score, p,
           IF Len(findings[p]) = 0 THEN Min2(anomaly_score[p], 490000) ELSE anomaly_score[p])
    /\ severity_conf' = Set(severity_conf, p,
           IF Len(findings[p]) = 0 THEN Min2(severity_conf[p], 550000) ELSE severity_conf[p])
    /\ pc' = Set(pc, p, "summarize")
    /\ UNCHANGED <<library, inputs, prepared, detection, consolidated, detection_conf, severity_band,
                   dq, outputs>>

\* analysis.py 308-398
Report(p) ==
    /\ pc[p] = "summarize"
    /\ \E sargs \in {SummaryArgs(p, compute_curve_statistics(depths[p], data[p], curves[p]))},
          iargs \in {InsightArgs(p)} :
           /\ summary_args' = Set(summary_args, p, sargs)
           /\ insight_args' = Set(insight_args, p, iargs)
           /\ result' = Set(result, p,
                  Bundle(p, sargs, iargs,
                         <<"Validate top intervals against neighboring depth windows.",
                           "Prioritize intervals with higher cross-curve agreement.",
                           "For noisy/spike zones, inspect sensor quality and smoothing sensitivity.",
                           "Treat probability as model-based screening confidence, not final fluid confirmation.">>,
                         <<"Model version: det-v4", "Event count: {event_count}",
                           "Confidence and severity scores are model-based and require domain validation.">>))
    /\ pc' = Set(pc, p, "done")
    /\ UNCHANGED <<library, inputs, prepared, detection, consolidated, globals>>

Step(p) ==
    \/ Prepare(p)
    \/ Insufficient(p)
    \/ InsufficientReport(p)
    \/ SkipCurve(p)
    \/ DetectCurve(p)
    \/ MergeAndRank(p)
    \/ Nms(p)
    \/ ZoneSeparation(p)
    \/ AnnotateAndLabel(p)
    \/ Aggregate(p)
    \/ Guard(p)
    \/ Report(p)

\* ------------------------------------------------------------------ inputs
ExtraRows == 1
MaxDups == 1
DetectRows == 58

ValPatterns == {"full", "sparse", "absent"}

\* the value a row carries for a curve: every row a different number, so that rows of
\* equal depth differ; "sparse" leaves one finite sample in four, the others null
ValAt(pat, i) ==
    IF pat = "full" THEN i - 1
    ELSE IF pat = "sparse" THEN (IF i % 4 = 1 THEN i - 1 ELSE None)
    ELSE Absent

Grids == {"unit", "five", "gapped"}

\* the depth of the k-th grid point: a step of 1, a step of 5, or a step of 5 with two
\* logging gaps of 45 (after points 21 and 24)
GridDepth(grid, k) ==
    IF grid = "unit" THEN k - 1
    ELSE 5 * (k - 1)
         + (IF grid = "gapped" /\ k > 21 THEN 40 ELSE 0)
         + (IF grid = "gapped" /\ k > 24 THEN 40 ELSE 0)

\* N rows on a grid; the last dups rows repeat the depths of the first
GridRows(N, dups, grid, vals) ==
    [i \in 1..N |->
        [depth |-> GridDepth(grid, IF i <= N - dups THEN i ELSE i - (N - dups)),
         values |-> [c \in CurveNames |-> ValAt(vals[c], i)]]]

Reverse(s) == [i \in 1..Len(s) |-> s[Len(s) + 1 - i]]

\* The per-sample score of a curve (0.62 |z_level| + 0.38 |z_slope|) is read, not
\* computed: a few samples stand out at one height, the others score 0. At most five
\* samples stand out, which is what the 92nd percentile flags among 58 to 60 samples.
ScorePatterns == {"flat", "two", "spikes", "runA", "runB", "runC", "runD",
                  "zonesA", "zonesB", "zonesC", "zonesD", "zonesF"}
Heights == {2800, 3000, 5000, 8000, 12000}

Flagged(pat, len) ==
    IF pat = "flat" THEN {}
    ELSE IF pat = "two" THEN {5, 13}
    ELSE IF pat = "spikes" THEN {5, 13, 30, 45, 50}
    ELSE IF pat = "runA" THEN 21..25
    ELSE IF pat = "runB" THEN (22..25) \cup {len}
    ELSE IF pat = "runC" THEN 23..26
    ELSE IF pat = "runD" THEN 41..44
    ELSE IF pat = "zonesA" THEN (11..14) \cup (31..34) \cup (51..54)
    ELSE IF pat = "zonesB" THEN (71..74) \cup (91..94) \cup (111..114)
    ELSE IF pat = "zonesC" THEN (131..134) \cup (151..154)
    ELSE IF pat = "zonesD" THEN 131..134
    ELSE (15..18) \cup (131..134) \cup (151..154) \cup (171..174)

ScoreArray(sc, len) == [k \in 1..len |-> IF k \in Flagged(sc.pat, len) THEN sc.h ELSE 0]

Shape(pk, rest) == [peaky |-> pk, rest |-> rest]

FlatScore == [pat |-> "flat", h |-> 0]
PlainShape == <<Shape(FALSE, "drift"), Shape(FALSE, "drift")>>

CurveLists == {<<"GR">>, <<"GR", "RHOB">>, <<"GR", "RHOB", "NPHI">>}

TieOrders == {"input_order", "reverse_order"}

\* scenarios that vary the rows (count, duplicates, order, missing values, tie order)
RowScenarios ==
    [N : (MIN_ROWS - 1)..(MIN_ROWS + ExtraRows), dups : 0..MaxDups, grid : {"unit", "five"},
     rev : BOOLEAN,
     vals : {v \in [CurveNames -> ValPatterns] : v["NPHI"] = "absent"},
     curves : {<<"GR">>, <<"GR", "RHOB">>},
     score : {[c \in CurveNames |-> IF c = "GR" THEN [pat |-> "two", h |-> 8000]
                                    ELSE FlatScore]},
     shape : {[c \in CurveNames |-> PlainShape]}, clip : {2}, ties : TieOrders]

ShapePairs ==
    { [c \in CurveNames |-> PlainShape],
      [c \in CurveNames |-> IF c = "RHOB"
                            THEN <<Shape(TRUE, "noisy_zone"), Shape(TRUE, "noisy_zone")>>
                            ELSE PlainShape],
      [c \in CurveNames |-> IF c = "GR"
                            THEN <<Shape(FALSE, "step_change"), Shape(FALSE, "drift")>>
                            ELSE PlainShape] }

\* what detection can see on each curve
CurveScores ==
    {sc \in [CurveNames -> [pat : ScorePatterns, h : Heights \cup {0}]] :
        /\ sc["GR"] \in {FlatScore, [pat |-> "spikes", h |-> 8000],
                         [pat |-> "runA", h |-> 2800], [pat |-> "runA", h |-> 3000],
                         [pat |-> "runA", h |-> 5000],
                         [pat |-> "runA", h |-> 8000]}
        /\ sc["RHOB"] \in {FlatScore, [pat |-> "spikes", h |-> 8000],
                           [pat |-> "runB", h |-> 8000], [pat |-> "runB", h |-> 12000],
                           [pat |-> "runC", h |-> 8000]}
        /\ sc["NPHI"] \in {FlatScore, [pat |-> "runC", h |-> 3000],
                           [pat |-> "runB", h |-> 8000], [pat |-> "runD", h |-> 8000]}}

\* scenarios that vary what detection sees on complete, sorted rows
DetectScenarios ==
    {sc \in [N : DetectRows..(DetectRows + ExtraRows), dups : {0}, grid : Grids,
             rev : {FALSE}, vals : {[c \in CurveNames |-> "full"]}, curves : CurveLists,
             score : CurveScores, shape : ShapePairs, clip : {0},
             ties : {"input_order"}] :
        \A c \in CurveNames \ CurveSet(sc.curves) : sc.score[c] = FlatScore}

\* scenarios with curves below the 30% finite floor next to curves detection can use:
\* 58 rows on the coarse grids, and 200 rows at unit step
SparseMixes ==
    {v \in [CurveNames -> {"full", "sparse", "absent"}] :
        /\ v["NPHI"] # "sparse"
        /\ \E c \in CurveNames : v[c] # "full"}

SparseScenarios ==
    {sc \in [N : {DetectRows, LOW_ROWS}, dups : {0}, grid : Grids, rev : {FALSE},
             vals : SparseMixes, curves : {<<"GR", "RHOB">>, <<"GR", "RHOB", "NPHI">>},
             score : {[c \in CurveNames |->
                          [pat |-> IF c = "GR" THEN "runA" ELSE "runB", h |-> 8000]]},
             shape : {[c \in CurveNames |-> PlainShape]}, clip : {0},
             ties : {"input_order"}] :
        (sc.N = LOW_ROWS) <=> (sc.grid = "unit")}

\* scenarios with more separate zones than the cap: 200 rows at step 5, up to four runs
\* of four samples on each curve (16 of 200 samples is what the 92nd percentile flags)
ZoneShapes ==
    [c \in CurveNames |-> IF c = "NPHI"
                          THEN <<Shape(FALSE, "noisy_zone"), Shape(FALSE, "drift")>>
                          ELSE PlainShape]

ZoneScores ==
    {sc \in [CurveNames -> [pat : ScorePatterns, h : Heights \cup {0}]] :
        /\ sc["GR"] = [pat |-> "zonesA", h |-> 8000]
        /\ sc["RHOB"] \in {FlatScore, [pat |-> "zonesB", h |-> 5000]}
        /\ sc["NPHI"] \in {FlatScore} \cup [pat : {"zonesC", "zonesD", "zonesF"},
                                             h : {3000, 12000}]}

ZoneScenarios ==
    [N : {LOW_ROWS}, dups : {0}, grid : {"five"}, rev : {FALSE},
     vals : {[c \in CurveNames |-> "full"]}, curves : {<<"GR", "RHOB", "NPHI">>},
     score : ZoneScores, shape : {ZoneShapes}, clip : {0}, ties : {"input_order"}]

Fresh ==
    /\ ord_idx = [p \in Inv |-> <<>>] /\ uniq = [p \in Inv |-> <<>>]
    /\ depths = [p \in Inv |-> <<>>] /\ data = [p \in Inv |-> <<>>]
    /\ n = [p \in Inv |-> 0] /\ ci = [p \in Inv |-> 1]
    /\ per_curve_scores = [p \in Inv |-> <<>>] /\ raw_intervals = [p \in Inv |-> <<>>]
    /\ curve_masks = [p \in Inv |-> <<>>]
    /\ clipped_points_total = [p \in Inv |-> 0] /\ raw_points_total = [p \in Inv |-> 0]
    /\ agreement_mask = [p \in Inv |-> <<>>] /\ findings = [p \in Inv |-> <<>>]
    /\ all_ranked_findings = [p \in Inv |-> <<>>]
    /\ anomaly_score = [p \in Inv |-> 0] /\ detection_conf = [p \in Inv |-> 0]
    /\ severity_conf = [p \in Inv |-> 0] /\ severity_band = [p \in Inv |-> ""]
    /\ dq = [p \in Inv |-> <<>>]
    /\ summary_args = [p \in Inv |-> <<>>] /\ insight_args = [p \in Inv |-> <<>>]
    /\ result = [p \in Inv |-> <<>>]

ScenarioRows(sc) ==
    LET g == GridRows(sc.N, sc.dups, sc.grid, sc.vals)
    IN  IF sc.rev THEN Reverse(g) ELSE g

\* one invocation (1) analyses the scenario; invocation 2 never starts
Init ==
    /\ \E sc \in RowScenarios \cup DetectScenarios \cup SparseScenarios \cup ZoneScenarios :
          LET len == sc.N - sc.dups
          IN  /\ sortTies = sc.ties
              /\ rows = [p \in Inv |-> IF p = 1 THEN ScenarioRows(sc) ELSE <<>>]
              /\ curves = [p \in Inv |-> IF p = 1 THEN sc.curves ELSE <<>>]
              /\ scoreIn = [p \in Inv |-> [c \in CurveNames |-> ScoreArray(sc.score[c], len)]]
              /\ typeIn = [p \in Inv |-> sc.shape]
              /\ clipIn = [p \in Inv |-> [c \in CurveNames |-> sc.clip]]
    /\ from_depth = [p \in Inv |-> 0]
    /\ to_depth = [p \in Inv |-> 100]
    /\ pc = [p \in Inv |-> IF p = 1 THEN "start" ELSE "idle"]
    /\ Fresh
    /\ LibraryOff

Next == Step(1)

Spec == Init /\ [][Next]_vars

\* ------------------------------------------------------------------ properties
Done(p) == pc[p] = "done"
Returned(p) == result[p].intervalFindings
MainBranch(p) == Len(depths[p]) >= MIN_ROWS

\* the index in rows of the row kept at each position of the depth series
KeptRows(p) == Compress(ord_idx[p], uniq[p])

\* C1: any two distinct returned findings have overlap / hull strictly below 0.55
C1_IoUBelowThreshold ==
    \A p \in Inv : Done(p) =>
        \A a, b \in 1..Len(Returned(p)) :
            a # b =>
                LET fa == Returned(p)[a]
                    fb == Returned(p)[b]
                IN  100 * Inter(fa.fromDepth, fa.toDepth, fb.fromDepth, fb.toDepth)
                        < IOU_THR * Hull(fa.fromDepth, fa.toDepth, fb.fromDepth, fb.toDepth)

\* C2: the centers of any two distinct returned findings differ by at least 22
C2_CentersSeparated ==
    \A p \in Inv : Done(p) =>
        \A a, b \in 1..Len(Returned(p)) :
            a # b => Abs(Center2(Returned(p)[a]) - Center2(Returned(p)[b])) >= 2 * MIN_SEP

\* two findings were returned although the ranking held one closer than 22 to a kept one
C2_Witness ==
    \E p \in Inv :
        /\ Done(p) /\ Len(Returned(p)) >= 2
        /\ \E a, b \in 1..Len(all_ranked_findings[p]) :
              /\ a # b
              /\ Abs(Center2(all_ranked_findings[p][a]) - Center2(all_ranked_findings[p][b]))
                     < 2 * MIN_SEP

\* C3: with eventCount = 0 the reported severity band is LOW or MODERATE
C3_SeverityCappedAtModerate ==
    \A p \in Inv : Done(p) /\ result[p].eventCount = 0 =>
        result[p].severityBand \in {"LOW", "MODERATE"}

\* C4: with eventCount = 0 the returned anomalyScore is at most 0.49 and severityConfidence
\* at most 0.55, and the summary and insight builders were given those capped values
C4_ScoresCapped ==
    \A p \in Inv : Done(p) /\ result[p].eventCount = 0 =>
        /\ result[p].anomalyScore <= 490
        /\ result[p].severityConfidence <= 550
        /\ summary_args[p].anomaly_score <= 490000
        /\ summary_args[p].severity_conf <= 550000
        /\ insight_args[p].anomaly_score = summary_args[p].anomaly_score
        /\ insight_args[p].severity_conf = summary_args[p].severity_conf
        /\ result[p].anomalyScore = Round3(summary_args[p].anomaly_score)
        /\ result[p].severityConfidence = Round3(summary_args[p].severity_conf)

\* the guard has acted on the main branch: no finding, the uncapped score was in the HIGH
\* or CRITICAL band, and the returned score is the cap
C4_Witness ==
    \E p \in Inv :
        /\ Done(p) /\ MainBranch(p) /\ result[p].eventCount = 0
        /\ severity_band[p] \in {"HIGH", "CRITICAL"}
        /\ result[p].anomalyScore = 490 /\ result[p].severityConfidence <= 550

\* the number of distinct depths among the rows of invocation p
DistinctDepths(p) == Cardinality({rows[p][i].depth : i \in 1..Len(rows[p])})

\* C5: fewer than 20 rows after sort and de-duplication: no detection, and the
\* insufficient-data bundle; 20 or more: the main detection branch
C5_InsufficientBranch ==
    \A p \in Inv : Done(p) =>
        IF DistinctDepths(p) < MIN_ROWS
        THEN /\ result[p].eventCount = 0 /\ result[p].intervalFindings = <<>>
             /\ result[p].anomalyScore = 0
             /\ result[p].detectionConfidence = 250 /\ result[p].confidence = 250
             /\ result[p].severityConfidence = 200
             /\ result[p].severityBand = "LOW"
             /\ result[p].dataQuality = dq[p] /\ "qualityBand" \in DOMAIN dq[p]
             /\ DOMAIN result[p].curveStatistics = CurveSet(curves[p])
             /\ result[p].summary = summary_args[p] /\ summary_args[p].row_count = n[p]
             /\ result[p].insight.args = insight_args[p] /\ result[p].insight.shows = <<>>
             /\ result[p].limitations[1] = "Too few rows for robust interpretation."
             /\ raw_points_total[p] = 0 /\ per_curve_scores[p] = <<>> /\ ci[p] = 1
        ELSE /\ raw_points_total[p] = n[p] * Len(curves[p])
             /\ ci[p] = Len(curves[p]) + 1
             /\ result[p].limitations[1] = "Model version: det-v4"

\* 20 or more rows were supplied and duplicates left 19: the insufficient bundle returned
C5_Witness ==
    \E p \in Inv :
        /\ Done(p) /\ Len(rows[p]) >= MIN_ROWS /\ DistinctDepths(p) = MIN_ROWS - 1
        /\ result[p].limitations[1] = "Too few rows for robust interpretation."

\* C6: anomalyScore in [0,1], detectionConfidence = confidence in [0.25,0.95],
\* severityConfidence in [0.20,0.92], on every branch
C6_ScoreRanges ==
    \A p \in Inv : Done(p) =>
        /\ result[p].anomalyScore \in 0..1000
        /\ result[p].detectionConfidence \in 250..950
        /\ result[p].confidence = result[p].detectionConfidence
        /\ result[p].severityConfidence \in 200..920

\* the lower clips bind on the main branch: no curve has a finite value, nothing is found
C6_Witness ==
    \E p \in Inv :
        /\ Done(p) /\ MainBranch(p)
        /\ \A c \in DOMAIN data[p] : CountFinite(data[p][c]) = 0
        /\ result[p].detectionConfidence = 250 /\ result[p].severityConfidence = 200

\* C9: after preparation the depths strictly increase, every curve array is as long as the
\* depth series, and index k carries the value of the row kept for depth k, missing and
\* null as the non-numeric marker
C9_AlignedArrays ==
    \A p \in Inv : pc[p] \notin {"idle", "start"} =>
        /\ \A k \in 1..(Len(depths[p]) - 1) : depths[p][k] < depths[p][k + 1]
        /\ {depths[p][k] : k \in 1..Len(depths[p])}
               = {rows[p][i].depth : i \in 1..Len(rows[p])}
        /\ DOMAIN data[p] = CurveSet(curves[p])
        /\ \A kept \in {KeptRows(p)} : \A c \in DOMAIN data[p] :
              /\ Len(data[p][c]) = Len(depths[p])
              /\ \A k \in 1..Len(depths[p]) :
                    LET row == rows[p][kept[k]]
                    IN  /\ row.depth = depths[p][k]
                        /\ data[p][c][k] =
                               (IF row.values[c] \in {Absent, None} THEN NaN ELSE row.values[c])
                        /\ (row.values[c] \in {Absent, None} => ~IsFinite(data[p][c][k]))

\* rows out of order with duplicate depths and null values were prepared
C9_Witness ==
    \E p \in Inv :
        /\ pc[p] \notin {"idle", "start"}
        /\ Len(depths[p]) < Len(rows[p])
        /\ \E i \in 1..(Len(rows[p]) - 1) : rows[p][i].depth > rows[p][i + 1].depth
        /\ \E c \in DOMAIN data[p] : \E k \in 1..Len(depths[p]) : data[p][c][k] = NaN
        /\ \E c \in DOMAIN data[p] : \E k \in 1..Len(depths[p]) : data[p][c][k] = 0

\* C10: of several rows with the same depth the first in the caller's order is kept
C10_FirstOccurrenceKept ==
    \A p \in Inv : pc[p] \notin {"idle", "start"} =>
        \A k \in 1..Len(depths[p]) :
            \A i \in 1..Len(rows[p]) :
                rows[p][i].depth = depths[p][k] => KeptRows(p)[k] <= i

\* ------------------------------------------------------------------ two invocations
MaxSmallRows == 2
MaxSmallDepth == 2

SmallRow(d, v) == [depth |-> d, values |-> [c \in CurveNames |-> IF c = "GR" THEN v ELSE Absent]]

SmallRows ==
    UNION {[1..len -> {SmallRow(d, v) : d \in 1..MaxSmallDepth, v \in {None, 0, 1}}] :
              len \in 0..MaxSmallRows}

\* the orders the same rows can be supplied in
Reorderings(rs) == {[i \in 1..Len(rs) |-> rs[f[i]]] : f \in Permutations(1..Len(rs))}

PairScenarios ==
    [N : {MIN_ROWS}, dups : {0, MaxDups}, grid : {"five"}, rev : {FALSE},
     vals : {[c \in CurveNames |-> IF c = "NPHI" THEN "absent" ELSE "full"],
             [c \in CurveNames |-> IF c = "GR" THEN "full"
                                   ELSE IF c = "RHOB" THEN "sparse" ELSE "absent"]},
     curves : {<<"GR", "RHOB">>},
     score : {[c \in CurveNames |-> IF c = "GR" THEN [pat |-> "two", h |-> 8000]
                                    ELSE FlatScore]},
     shape : {[c \in CurveNames |-> PlainShape]}, clip : {2}, ties : TieOrders]
    \cup
    [N : {DetectRows}, dups : {0}, grid : {"five", "gapped"}, rev : {FALSE},
     vals : {[c \in CurveNames |-> "full"]},
     curves : {<<"GR", "RHOB", "NPHI">>},
     score : {[c \in CurveNames |->
                 IF c = "GR" THEN [pat |-> "runA", h |-> 8000]
                 ELSE IF c = "RHOB" THEN sr ELSE [pat |-> "runD", h |-> 8000]] :
                 sr \in {[pat |-> "runB", h |-> 8000], [pat |-> "runC", h |-> 8000]}},
     shape : ShapePairs, clip : {0}, ties : {"input_order"}]

\* two invocations run side by side on the same rows, supplied in two orders
InitPair ==
    /\ \/ /\ sortTies \in TieOrders
          /\ \E rs \in SmallRows : \E rs2 \in Reorderings(rs) :
                rows = [p \in Inv |-> IF p = 1 THEN rs ELSE rs2]
          /\ curves = [p \in Inv |-> <<"GR">>]
          /\ scoreIn = [p \in Inv |-> [c \in CurveNames |-> <<>>]]
          /\ typeIn = [p \in Inv |-> [c \in CurveNames |-> PlainShape]]
          /\ clipIn = [p \in Inv |-> [c \in CurveNames |-> 0]]
       \/ \E sc \in PairScenarios :
             /\ sortTies = sc.ties
             /\ \E rs2 \in {ScenarioRows(sc), Reverse(ScenarioRows(sc))} :
                   rows = [p \in Inv |-> IF p = 1 THEN ScenarioRows(sc) ELSE rs2]
             /\ curves = [p \in Inv |-> sc.curves]
             /\ scoreIn = [p \in Inv |->
                              [c \in CurveNames |-> ScoreArray(sc.score[c], sc.N - sc.dups)]]
             /\ typeIn = [p \in Inv |-> sc.shape]
             /\ clipIn = [p \in Inv |-> [c \in CurveNames |-> sc.clip]]
    /\ from_depth = [p \in Inv |-> 0]
    /\ to_depth = [p \in Inv |-> 100]
    /\ pc = [p \in Inv |-> "start"]
    /\ Fresh
    /\ LibraryOff

NextPair == \E p \in Inv : Step(p)

SpecPair == InitPair /\ [][NextPair]_vars

SameArguments ==
    /\ rows[1] = rows[2] /\ curves[1] = curves[2]
    /\ from_depth[1] = from_depth[2] /\ to_depth[1] = to_depth[2]

Occurrences(rs, r) == Cardinality({j \in 1..Len(rs) : rs[j] = r})

IsReordering(rs, rs2) ==
    /\ Len(rs) = Len(rs2)
    /\ \A i \in 1..Len(rs) : Occurrences(rs, rs[i]) = Occurrences(rs2, rs[i])

\* C8: the same rows supplied in any order return the same output
C8_OrderIndependent ==
    Done(1) /\ Done(2) /\ IsReordering(rows[1], rows[2]) => result[1] = result[2]

\* rows of equal depth carry equal values for the analysed curves
DuplicatesAgree(p) ==
    \A i, j \in 1..Len(rows[p]) :
        rows[p][i].depth = rows[p][j].depth =>
            \A c \in CurveSet(curves[p]) :
                ValueOf(rows[p][i], c) = ValueOf(rows[p][j], c)

\* C8 as amended: a reordering of the rows returns the same output when the rows that
\* share a depth carry the same curve values (so whenever all depths are distinct)
C8_OrderIndependentUpToDuplicates ==
    Done(1) /\ Done(2) /\ IsReordering(rows[1], rows[2]) /\ DuplicatesAgree(1)
        => result[1] = result[2]

\* rows were supplied in two different orders, with a repeated depth, and on the main
\* branch in two different orders
C8_Witness ==
    /\ Done(1) /\ Done(2) /\ rows[1] # rows[2] /\ DuplicatesAgree(1)
    /\ result[1] = result[2]
    /\ \/ MainBranch(1) /\ Len(Returned(1)) > 0
       \/ Len(depths[1]) < Len(rows[1])


\* ------------------------------------------------------------------ sparse curves
FiniteBelowFloor(arr) == 10 * CountFinite(arr) < 3 * Len(arr)
ExcludedCurves(p) == {c \in CurveSet(curves[p]) : FiniteBelowFloor(data[p][c])}
RetainedCurves(p) == CurveSet(curves[p]) \ ExcludedCurves(p)

\* the runs detection would have made of an excluded curve's scores
WouldFlag(p, c) == RawIntervalsOf(c, scoreIn[p][c], typeIn[p][c], depths[p]) # <<>>

\* C11: a curve with fewer than 30% finite samples has no mask in the cross-curve
\* agreement, no raw interval and no severity proxy, and no returned finding names it;
\* when every curve is excluded nothing is found and anomalyScore is 0
C11_SparseCurveExcluded ==
    \A p \in Inv : Done(p) /\ MainBranch(p) =>
        /\ DOMAIN curve_masks[p] = RetainedCurves(p)
        /\ \A c \in RetainedCurves(p) : curve_masks[p][c] = AnomalyMask(scoreIn[p][c])
        /\ \A k \in 1..n[p] :
               agreement_mask[p][k] =
                   IF Cardinality(RetainedCurves(p)) >= 2
                   THEN (Cardinality({c \in RetainedCurves(p) : curve_masks[p][c][k]}) * Milli)
                            \div Cardinality(RetainedCurves(p))
                   ELSE 0
        /\ \A q \in 1..Len(raw_intervals[p]) :
               raw_intervals[p][q].curves \cap ExcludedCurves(p) = {}
        /\ Len(per_curve_scores[p]) = Cardinality(RetainedCurves(p))
        /\ \A q \in 1..Len(Returned(p)) : Returned(p)[q].curve \cap ExcludedCurves(p) = {}
        /\ RetainedCurves(p) = {} =>
               /\ result[p].eventCount = 0 /\ Returned(p) = <<>>
               /\ result[p].anomalyScore = 0

\* a curve whose scores hold a long enough run was excluded while another curve gave a
\* returned finding
C11_Witness ==
    \E p \in Inv :
        /\ Done(p) /\ MainBranch(p) /\ Len(Returned(p)) >= 1
        /\ \E c \in ExcludedCurves(p) : WouldFlag(p, c)

SparsityWarnings ==
    {"High missing-value rate may reduce reliability.",
     "Many curve samples are sparse; cross-curve agreement may be unstable.",
     "No curve data available."}

Mentions(list, texts) == \E k \in 1..Len(list) : list[k] \in texts

\* C12: whenever a requested curve is excluded for being below the 30% finite floor,
\* dataQuality.warnings, and with it limitations, holds a warning about missing or
\* sparse data
C12_ExclusionWarned ==
    \A p \in Inv : Done(p) /\ MainBranch(p) /\ ExcludedCurves(p) # {} =>
        /\ Mentions(result[p].dataQuality.warnings, SparsityWarnings)
        /\ Mentions(result[p].limitations, SparsityWarnings)

\* ------------------------------------------------------------------ runs
FlagsAt(score, thr) == {k \in 1..Len(score) : 100 * score[k] >= thr}

MaximalRun(fl, i, j) ==
    /\ i <= j
    /\ \A k \in i..j : k \in fl
    /\ (i - 1) \notin fl /\ (j + 1) \notin fl

RawRunsOf(p, c) ==
    {<<raw_intervals[p][q].i, raw_intervals[p][q].j>> :
        q \in {x \in 1..Len(raw_intervals[p]) : raw_intervals[p][x].curves = {c}}}

\* the samples of a curve at or above its threshold that lie in none of its raw intervals
Unkept(p, c) ==
    {k \in FlagsAt(scoreIn[p][c], Threshold100(scoreIn[p][c])) :
        \A r \in RawRunsOf(p, c) : k < r[1] \/ k > r[2]}

\* C15: the raw intervals of a curve are exactly its maximal runs of samples scoring at
\* least max(2.6, 92nd percentile) that are max(4, round(6 / median step)) samples long or
\* longer; two runs of one curve are disjoint and not adjacent
C15_RunsMaximalAndLongEnough ==
    \A p \in Inv : Done(p) /\ MainBranch(p) =>
        /\ \A q \in 1..Len(raw_intervals[p]) :
               Cardinality(raw_intervals[p][q].curves) = 1
        /\ \A c \in RetainedCurves(p) :
           \A thr \in {Max2(100 * SCORE_FLOOR, Percentile100(scoreIn[p][c], 92))} :
           \A fl \in {FlagsAt(scoreIn[p][c], thr)} :
           \A min_run \in {Max2(4, RoundDiv(12, Step2(depths[p])))} :
           \A runs \in {RawRunsOf(p, c)} :
               /\ \A r \in runs :
                      /\ 1 <= r[1] /\ r[2] <= n[p]
                      /\ MaximalRun(fl, r[1], r[2])
                      /\ r[2] - r[1] + 1 >= min_run
               /\ \A i, j \in fl :
                      MaximalRun(fl, i, j) /\ j - i + 1 >= min_run => <<i, j>> \in runs
               /\ \A r, t \in runs : r # t => r[2] + 1 < t[1] \/ t[2] + 1 < r[1]
               /\ Cardinality(runs) =
                      Cardinality({x \in 1..Len(raw_intervals[p]) :
                                      raw_intervals[p][x].curves = {c}})

\* a curve gave a raw interval and also has a flagged sample in a run too short to keep
C15_Witness ==
    \E p \in Inv : Done(p) /\ MainBranch(p) /\
        \E c \in RetainedCurves(p) :
            /\ RawRunsOf(p, c) # {}
            /\ Unkept(p, c) # {}

\* ------------------------------------------------------------------ limitations
EndsWith(list, tail) ==
    /\ Len(list) >= Len(tail)
    /\ SubSeq(list, Len(list) - Len(tail) + 1, Len(list)) = tail

\* C17: on every branch recommendations and limitations are non-empty and limitations
\* ends with the data-quality warnings, all of them and in their order
C17_ListsNonEmpty ==
    \A p \in Inv : Done(p) =>
        /\ Len(result[p].recommendations) >= 1
        /\ Len(result[p].limitations) >= 1
        /\ EndsWith(result[p].limitations, result[p].dataQuality.warnings)

\* the main branch with every curve below the floor returned a bundle whose limitations
\* end with two or more warnings
C17_Witness ==
    \E p \in Inv :
        /\ Done(p) /\ MainBranch(p) /\ RetainedCurves(p) = {} /\ Returned(p) = <<>>
        /\ Len(result[p].dataQuality.warnings) >= 2
        /\ EndsWith(result[p].limitations, result[p].dataQuality.warnings)


\* ------------------------------------------------------------------ merging
Merged(p) == merge_intervals(raw_intervals[p], GapMerge(depths[p]))

Within(r, o) == o.type = r.type /\ o.i <= r.i /\ r.j <= o.j

\* g assigns every raw interval to an output interval of its type that contains it, and
\* every output interval is the hull, the maximum score and the curve union of the raw
\* intervals assigned to it
Constituents(raw, out, g) ==
    /\ \A q \in 1..Len(raw) : Within(raw[q], out[g[q]])
    /\ \A o \in 1..Len(out) :
           LET mine == {q \in 1..Len(raw) : g[q] = o}
           IN  /\ mine # {}
               /\ \E q \in mine : raw[q].i = out[o].i
               /\ \E q \in mine : raw[q].j = out[o].j
               /\ \E q \in mine : raw[q].score = out[o].score
               /\ \A q \in mine : raw[q].score <= out[o].score
               /\ out[o].curves = UNION {raw[q].curves : q \in mine}

\* the assignments of the first q raw intervals to output intervals of their type that
\* contain them
RECURSIVE Assignments(_, _, _)
Assignments(raw, out, q) ==
    IF q = 0 THEN {<<>>}
    ELSE {Append(g, o) : g \in Assignments(raw, out, q - 1),
                         o \in {x \in 1..Len(out) : Within(raw[q], out[x])}}

MergeContract(raw, out, gap) ==
    /\ \A a, b \in 1..Len(out) : a < b => out[a].i <= out[b].i
    /\ \A q \in 2..Len(out) :
           ~(out[q].i <= out[q - 1].j + gap /\ out[q].type = out[q - 1].type)
    /\ \E g \in Assignments(raw, out, Len(raw)) : Constituents(raw, out, g)

\* the raw intervals as detection appended them, curve after curve
RECURSIVE RawOfCurves(_, _)
RawOfCurves(p, k) ==
    IF k = 0 THEN <<>>
    ELSE RawOfCurves(p, k - 1)
         \o (IF curves[p][k] \in RetainedCurves(p)
             THEN RawIntervalsOf(curves[p][k], scoreIn[p][curves[p][k]],
                                 typeIn[p][curves[p][k]], depths[p])
             ELSE <<>>)

\* C19 as stated: the merged intervals ascend in start, two consecutive ones could not
\* have been folded, each is the hull, maximum score and curve union of the raw intervals
\* folded into it, every raw interval lies in exactly one merged interval of its type,
\* and the raw intervals are left as detection made them
C19_MergeExactlyOne ==
    \A p \in Inv : Done(p) /\ MainBranch(p) =>
        \A out \in {Merged(p)} :
            /\ MergeContract(raw_intervals[p], out, GapMerge(depths[p]))
            /\ \A q \in 1..Len(raw_intervals[p]) :
                   Cardinality({o \in 1..Len(out) : Within(raw_intervals[p][q], out[o])}) = 1
            /\ raw_intervals[p] = RawOfCurves(p, Len(curves[p]))

\* C19 amended: as above, with every raw interval in at least one merged interval of
\* its type
C19_MergeAtLeastOne ==
    \A p \in Inv : Done(p) /\ MainBranch(p) =>
        \A out \in {Merged(p)} :
            /\ MergeContract(raw_intervals[p], out, GapMerge(depths[p]))
            /\ \A q \in 1..Len(raw_intervals[p]) :
                   \E o \in 1..Len(out) : Within(raw_intervals[p][q], out[o])
            /\ Len(all_ranked_findings[p]) = Len(out)
            /\ raw_intervals[p] = RawOfCurves(p, Len(curves[p]))

\* three raw intervals became two merged ones: two of one type were folded, over a third
\* of another type
C19_Witness ==
    \E p \in Inv :
        /\ Done(p) /\ MainBranch(p)
        /\ Len(raw_intervals[p]) = 3 /\ Len(all_ranked_findings[p]) = 2
        /\ \E a, b \in 1..3 : raw_intervals[p][a].type # raw_intervals[p][b].type

\* ------------------------------------------------------------------ labels
\* C20: every returned finding has a priority (strong above 5.0, elevated from 3.0 to 5.0
\* inclusive, else watch) and a probability (High for confidence >= 0.80 and score >= 8.5,
\* Medium for confidence >= 0.64 and score >= 5.5, else Low) of its rounded score and
\* confidence; Medium and High come with priority strong
C20_Labels ==
    \A p \in Inv : Done(p) =>
        \A q \in 1..Len(Returned(p)) :
            LET f == Returned(p)[q]
            IN  /\ {"priority", "probability"} \subseteq DOMAIN f
                /\ (f.priority = "strong") <=> (f.score > 5000)
                /\ (f.priority = "elevated") <=> (3000 <= f.score /\ f.score <= 5000)
                /\ (f.priority = "watch") <=> (f.score < 3000)
                /\ (f.probability = "High") <=> (f.confidence >= 800 /\ f.score >= 8500)
                /\ (f.probability = "Medium") <=>
                       /\ ~(f.confidence >= 800 /\ f.score >= 8500)
                       /\ f.confidence >= 640 /\ f.score >= 5500
                /\ f.probability \in {"High", "Medium", "Low"}
                /\ f.probability \in {"High", "Medium"} => f.priority = "strong"

\* a finding with a score of exactly 5.0 was returned as elevated
C20_Witness ==
    \E p \in Inv : Done(p) /\
        \E q \in 1..Len(Returned(p)) :
            Returned(p)[q].score = 5000 /\ Returned(p)[q].priority = "elevated"


\* ------------------------------------------------------------------ agreement
\* the score and confidence of a finding that no agreement boosts
Unboosted(p, f) ==
    /\ f.agreement = 0
    /\ \E q \in 1..Len(raw_intervals[p]) : raw_intervals[p][q].score = f.score
    /\ f.confidence = Clip(350 + Log1p(Max2(f.score, 0)) \div 10, 350, 950)

\* C21: with fewer than two curves past the 30% finite floor the agreement is 0 at every
\* sample and no finding is boosted; with two or more it is, at each sample, the number
\* of those curves flagged there over their number, between 0 and 1
C21_AgreementFraction ==
    \A p \in Inv : Done(p) /\ MainBranch(p) =>
        \A contributing \in {RetainedCurves(p)} :
        \A kept \in {Cardinality(contributing)} :
            /\ Len(agreement_mask[p]) = n[p]
            /\ \A k \in 1..n[p] : agreement_mask[p][k] \in 0..Milli
            /\ kept < 2 =>
                   /\ \A k \in 1..n[p] : agreement_mask[p][k] = 0
                   /\ \A q \in 1..Len(all_ranked_findings[p]) :
                          Unboosted(p, all_ranked_findings[p][q])
                   /\ \A q \in 1..Len(Returned(p)) : Unboosted(p, Returned(p)[q])
            /\ kept >= 2 =>
                   /\ \A c \in contributing :
                      \A fl \in {FlagsAt(scoreIn[p][c], Threshold100(scoreIn[p][c]))} :
                      \A k \in 1..n[p] : curve_masks[p][c][k] <=> k \in fl
                   /\ \A k \in 1..n[p] :
                          agreement_mask[p][k]
                              = (Cardinality({d \in contributing : curve_masks[p][d][k]})
                                     * Milli) \div kept

\* three curves asked for, one below the floor: where one of the other two is flagged the
\* agreement is one half
C21_Witness ==
    \E p \in Inv :
        /\ Done(p) /\ MainBranch(p)
        /\ Len(curves[p]) = 3 /\ Cardinality(RetainedCurves(p)) = 2
        /\ \E k \in 1..n[p] : agreement_mask[p][k] = 500
        /\ Len(Returned(p)) >= 1


\* ------------------------------------------------------------------ data-quality warnings
FiniteShare(arr) == IF Len(arr) = 0 THEN 0 ELSE (CountFinite(arr) * Micro) \div Len(arr)

\* the mean over the requested curves of their finite share, in Micro
MeanValid(p) ==
    LET cs == CurveSet(curves[p])
    IN  SumOver([c \in cs |-> FiniteShare(data[p][c])], cs) \div Cardinality(cs)

\* the points clipping changed, over the curves detection used, and all points of all
\* requested curves; nothing is clipped on the insufficient branch
ClippedOver(p) ==
    IF MainBranch(p)
    THEN LET used == {c \in RetainedCurves(p) : CountFinite(data[p][c]) >= 20}
         IN  [changed |-> SumOver([c \in used |-> clipIn[p][c]], used),
              total |-> n[p] * Len(curves[p])]
    ELSE [changed |-> 0, total |-> Max2(1, n[p] * Len(curves[p]))]

When(cond, text) == IF cond THEN <<text>> ELSE <<>>

\* C22: the warnings are exactly those whose condition holds, in the order missing values
\* (null fraction > 0.35), clipping (clipped fraction > 0.20), rows (effective rows < 200),
\* sampling (median depth step > 3.0), sparse samples (mean valid fraction < 0.55); the
\* sparse-samples warning comes only with the missing-values warning; the clipped
\* fraction is taken over the points of all requested curves, skipped ones included
C22_WarningsExact ==
    \A p \in Inv : Done(p) =>
        \A mean_valid \in {MeanValid(p)} :
        \A clip \in {ClippedOver(p)} :
        \A rows_with_data \in
               {Cardinality({k \in 1..n[p] :
                                \E c \in CurveSet(curves[p]) : IsFinite(data[p][c][k])})} :
        \A w \in {result[p].dataQuality.warnings} :
            /\ w = When(Micro - mean_valid > 350000,
                        "High missing-value rate may reduce reliability.")
                   \o When(clip.changed * 100 > 20 * clip.total,
                           "Significant outlier clipping detected; review sensor quality.")
                   \o When(rows_with_data < 200,
                           "Low effective row count; consider wider depth interval.")
                   \o When(Len(PositiveSteps(depths[p])) > 0
                               /\ Median2(PositiveSteps(depths[p])) > 6,
                           "Coarse depth sampling may miss narrow events.")
                   \o When(mean_valid < 550000,
                           "Many curve samples are sparse; cross-curve agreement may be unstable.")
            /\ Mentions(w, {"Many curve samples are sparse; cross-curve agreement may be unstable."})
                   => w[1] = "High missing-value rate may reduce reliability."
            /\ clip.total > 0
            /\ result[p].dataQuality.clippedFraction
                   = RoundDiv((clip.changed * Micro) \div clip.total, 100) * 100

\* one of two curves was skipped and the other had points clipped: three warnings, and a
\* clipped fraction of a twentieth, half of what the one used curve alone would give
C22_Witness ==
    \E p \in Inv :
        /\ Done(p) /\ MainBranch(p) /\ Len(curves[p]) = 2 /\ n[p] = MIN_ROWS
        /\ Cardinality(ExcludedCurves(p)) = 1
        /\ result[p].dataQuality.clippedFraction = 50000
        /\ result[p].dataQuality.warnings =
               <<"High missing-value rate may reduce reliability.",
                 "Low effective row count; consider wider depth interval.",
                 "Coarse depth sampling may miss narrow events.">>


\* ------------------------------------------------------------------ stability
\* the ranked findings, kept or dropped, with a center within 10 of the center of f
NeighborsOf(p, f) ==
    {a \in 1..Len(all_ranked_findings[p]) :
        Abs((f.fromDepth + f.toDepth)
            - (all_ranked_findings[p][a].fromDepth + all_ranked_findings[p][a].toDepth))
            <= 2 * 10}

\* 0.35 min(1, neighbors / 4) + 0.30 min(1, width / 18) + 0.25 min(1, agreement)
\* + 0.10 min(1, curves / 2), in Micro
StabilityOf(neighbors, width, agreement, support) ==
    (35 * Min2(Micro, (neighbors * Micro) \div 4) + 30 * Min2(Micro, (width * Micro) \div 18)
     + 25 * Min2(Micro, agreement * Milli) + 10 * Min2(Micro, (support * Micro) \div 2))
        \div 100

\* C23: the neighbours of a returned finding are counted in the full ranking made before
\* suppression, the finding itself among them, so there is at least one; the stability
\* score is in [0, 1]; the label is stable from 0.75, moderate from 0.52, else unstable
C23_StabilityAgainstRanking ==
    \A p \in Inv : Done(p) =>
        \A q \in 1..Len(Returned(p)) :
            \A f \in {Returned(p)[q]} :
            \A nb \in {NeighborsOf(p, f)} :
            \A st \in {StabilityOf(Cardinality(nb), Max2(0, f.toDepth - f.fromDepth),
                                   f.agreement, f.curvesSupporting)} :
                /\ \E a \in nb :
                       /\ all_ranked_findings[p][a].fromDepth = f.fromDepth
                       /\ all_ranked_findings[p][a].toDepth = f.toDepth
                       /\ all_ranked_findings[p][a].score = f.score
                /\ Cardinality(nb) >= 1
                /\ st \in 0..Micro
                /\ f.stabilityScore = RoundDiv(st, Milli)
                /\ f.stabilityScore \in 0..Milli
                /\ f.stability = (IF st >= 750000 THEN "stable"
                                  ELSE IF st >= 520000 THEN "moderate" ELSE "unstable")

\* the one returned finding has a neighbour that suppression dropped
C23_Witness ==
    \E p \in Inv :
        /\ Done(p) /\ Len(Returned(p)) = 1 /\ Len(all_ranked_findings[p]) = 2
        /\ Cardinality(NeighborsOf(p, Returned(p)[1])) = 2


\* ------------------------------------------------------------------ cap of six
\* the fields a show copies from a finding
ShowOf(f) ==
    [fromDepth |-> f.fromDepth, toDepth |-> f.toDepth, probability |-> f.probability,
     reason |-> f.reason, stability |-> f.stability, score |-> f.score,
     priority |-> f.priority]

\* C26: analyze never returns more than 6 findings, eventCount is their number, the
\* insight bundle lists at most 6 shows, and the show at each position carries the
\* depths, probability, reason, stability, score and priority of the finding at the
\* same position of intervalFindings
C26_CapOfSix ==
    \A p \in Inv : Done(p) =>
        \A fs \in {Returned(p)} : \A shows \in {result[p].insight.shows} :
            /\ Len(fs) <= 6
            /\ result[p].eventCount = Len(fs)
            /\ Len(shows) <= 6
            /\ Len(shows) = Len(fs)
            /\ \A q \in 1..Len(shows) : shows[q] = ShowOf(fs[q])

\* more than six separate zones were ranked and six are returned and shown
C26_Witness ==
    \E p \in Inv :
        /\ Done(p)
        /\ Len(nms_intervals(all_ranked_findings[p], IOU_THR)) >= 7
        /\ \A a, b \in 1..Len(all_ranked_findings[p]) :
              a # b => Abs(Center2(all_ranked_findings[p][a])
                           - Center2(all_ranked_findings[p][b])) >= 2 * MIN_SEP
        /\ Len(Returned(p)) = 6
        /\ Len(result[p].insight.shows) = 6


\* ------------------------------------------------------------------ greedy suppression
\* the position of a finding in a list of distinct findings
Pos(fs, f) == CHOOSE a \in 1..Len(fs) : fs[a] = f

\* out keeps findings of fs in the order of fs
KeepsInOrder(fs, out) ==
    /\ \A q \in 1..Len(out) : \E a \in 1..Len(fs) : fs[a] = out[q]
    /\ \A q, u \in 1..Len(out) : q < u => Pos(fs, out[q]) < Pos(fs, out[u])

Dropped(fs, out) == {a \in 1..Len(fs) : \A q \in 1..Len(out) : out[q] # fs[a]}

\* overlap / hull >= 0.55
IouReaches(f, g) ==
    100 * Inter(f.fromDepth, f.toDepth, g.fromDepth, g.toDepth)
        >= 55 * Hull(f.fromDepth, f.toDepth, g.fromDepth, g.toDepth)

\* centers less than 22 apart
CentersClose(f, g) == Abs((f.fromDepth + f.toDepth) - (g.fromDepth + g.toDepth)) < 44

NmsComplete(fs, out) ==
    /\ KeepsInOrder(fs, out)
    /\ \A a \in Dropped(fs, out) :
          \E q \in 1..Len(out) : Pos(fs, out[q]) < a /\ IouReaches(fs[a], out[q])

ZoneComplete(fs, out) ==
    /\ KeepsInOrder(fs, out)
    /\ \A a \in Dropped(fs, out) :
          \/ \E q \in 1..Len(out) : Pos(fs, out[q]) < a /\ CentersClose(fs[a], out[q])
          \/ Len(out) = 6 /\ Pos(fs, out[6]) < a

\* C27: every finding the NMS step drops overlaps, with IoU of at least 0.55, a kept
\* finding ranked before it; every finding the zone-separation step drops has its center
\* less than 22 depth units from a kept finding ranked before it, or comes after the
\* sixth kept finding; both steps keep the order of the ranking
C27_SuppressionComplete ==
    [][\A p \in Inv :
          /\ (pc[p] = "nms" /\ pc'[p] = "separate"
                 => /\ findings[p] = all_ranked_findings[p]
                    /\ NmsComplete(findings[p], findings'[p]))
          /\ (pc[p] = "separate" /\ pc'[p] = "annotate"
                 => ZoneComplete(findings[p], findings'[p]))]_vars

\* the zone-separation step has dropped a finding for its center and the NMS step had
\* dropped another for its overlap
C27_Witness ==
    \E p \in Inv :
        /\ pc[p] = "annotate"
        /\ \E a, b \in 1..Len(all_ranked_findings[p]) :
              /\ a < b
              /\ IouReaches(all_ranked_findings[p][a], all_ranked_findings[p][b])
        /\ \E c \in Dropped(all_ranked_findings[p], findings[p]) :
              /\ \A a \in 1..Len(all_ranked_findings[p]) :
                    a # c => ~IouReaches(all_ranked_findings[p][c], all_ranked_findings[p][a])
              /\ \E q \in 1..Len(findings[p]) :
                    CentersClose(all_ranked_findings[p][c], findings[p][q])
        /\ Len(findings[p]) + 2 <= Len(all_ranked_findings[p])
        /\ Len(all_ranked_findings[p]) <= 6


\* ------------------------------------------------------------------ the top finding
\* curve c has a maximal run of at least min_run samples at or above its threshold
HasLongRun(p, c) ==
    \E thr \in {Max2(100 * SCORE_FLOOR, Percentile100(scoreIn[p][c], 92))} :
    \E fl \in {FlagsAt(scoreIn[p][c], thr)} :
    \E min_run \in {Max2(4, RoundDiv(12, Step2(depths[p])))} :
        \E i \in fl : (i - 1) \notin fl /\ \A k \in i..(i + min_run - 1) : k \in fl

\* C28: on the main branch a non-empty ranking gives a non-empty result whose first
\* finding is the top-ranked merged finding, and eventCount is 0 exactly when no curve
\* the detection loop processed has a run of at least min_run samples at or above its
\* threshold
C28_TopSurvives ==
    \A p \in Inv : Done(p) /\ MainBranch(p) =>
        \A ranked \in {all_ranked_findings[p]} : \A fs \in {Returned(p)} :
            /\ ranked # <<>> =>
                   /\ fs # <<>>
                   /\ fs[1].fromDepth = ranked[1].fromDepth
                   /\ fs[1].toDepth = ranked[1].toDepth
                   /\ fs[1].score = ranked[1].score
                   /\ fs[1].curve = ranked[1].curve
                   /\ fs[1].reason = ranked[1].reason
            /\ (result[p].eventCount = 0) <=> (\A c \in RetainedCurves(p) : ~HasLongRun(p, c))
            /\ (ranked = <<>>) <=> (\A c \in RetainedCurves(p) : ~HasLongRun(p, c))

\* three findings were ranked and consolidation left the top one only
C28_Witness ==
    \E p \in Inv :
        /\ Done(p) /\ MainBranch(p)
        /\ Len(all_ranked_findings[p]) = 3
        /\ Len(Returned(p)) = 1
        /\ Returned(p)[1].fromDepth = all_ranked_findings[p][1].fromDepth
        /\ Returned(p)[1].toDepth = all_ranked_findings[p][1].toDepth


\* ------------------------------------------------------------------ ranking order
\* C29: the returned findings are in non-increasing order of score; the first of them,
\* which is also the first finding the summary and the insight builders receive, has the
\* maximum score among all merged findings
C29_RankingOrder ==
    \A p \in Inv : Done(p) =>
        \A fs \in {Returned(p)} :
            /\ \A q \in 1..(Len(fs) - 1) : fs[q].score >= fs[q + 1].score
            /\ result[p].summary.findings = fs
            /\ result[p].insight.args.findings = fs
            /\ fs # <<>> =>
                   \A a \in 1..Len(all_ranked_findings[p]) :
                       fs[1].score >= all_ranked_findings[p][a].score
            /\ fs = <<>> /\ MainBranch(p) => all_ranked_findings[p] = <<>>

\* the strongest of several returned findings is not the shallowest one
C29_Witness ==
    \E p \in Inv :
        /\ Done(p)
        /\ Len(Returned(p)) >= 3
        /\ Returned(p)[1].score > Returned(p)[2].score
        /\ Returned(p)[1].fromDepth > Returned(p)[2].fromDepth
        /\ Returned(p)[2].score > Returned(p)[Len(Returned(p))].score
        /\ Len(all_ranked_findings[p]) > Len(Returned(p))


\* ------------------------------------------------------------------ helper functions
\* Helper functions are applied to arguments of their own, outside analyze: one call,
\* its arguments in call and its result in ret.

\* analyze is not running
NoAnalysis ==
    /\ sortTies = "input_order"
    /\ rows = [p \in Inv |-> <<>>] /\ curves = [p \in Inv |-> <<>>]
    /\ from_depth = [p \in Inv |-> 0] /\ to_depth = [p \in Inv |-> 0]
    /\ scoreIn = [p \in Inv |-> [c \in CurveNames |-> <<>>]]
    /\ typeIn = [p \in Inv |-> [c \in CurveNames |-> PlainShape]]
    /\ clipIn = [p \in Inv |-> [c \in CurveNames |-> 0]]
    /\ pc = [p \in Inv |-> "idle"]
    /\ Fresh

analysis == <<inputs, pc, prepared, detection, consolidated, globals, outputs>>

Returns(op, value) ==
    /\ lpc = "called" /\ call.op = op
    /\ ret' = value
    /\ lpc' = "returned"
    /\ UNCHANGED <<call, analysis, services>>

\* ------------------------------------------------------------------ summary bullets
MaxSpread == 3
MaxCount == 5
MaxFindings == 2
MaxBulletsArg == 5

Bullet(kind, curve) == [kind |-> kind, curve |-> curve]

\* _top_curves: the curves by (count, p90 - p10) descending, ties in dict order, the first
\* max(0, max_items) of them; a spread that is not finite (-inf) is -1 here
top_curves(order, curve_stats, max_items) ==
    LET keys == [q \in 1..Len(order) |->
                    curve_stats[order[q]].count * (MaxSpread + 2)
                        + curve_stats[order[q]].spread + 1]
        ranked == StableSort(order, keys, TRUE)
    IN  SubSeq(ranked, 1, Min2(Len(ranked), Max2(0, max_items)))

\* variant: no room kept for the data-quality and caution lines
CapacityUnreserved(core_len) == Max2(0, 8 - core_len)

\* analysis_summary.py 249: capacity = max(0, 8 - (len(core) + 2))
Capacity(core_len) == Max2(0, 8 - (core_len + 2))

\* analysis_summary.py 273-284: the filling up to min_lines
RECURSIVE FillTo(_, _, _)
FillTo(out, min_lines, i) ==
    IF Len(out) >= min_lines THEN out
    ELSE FillTo(Append(out, Bullet(IF i = 0 THEN "fill_cross_validate"
                                   ELSE IF i = 1 THEN "fill_screening"
                                   ELSE "fill_limited", "")),
                min_lines, i + 1)

\* build_summary_bullets, each bullet by its kind (and its curve for a curve line)
build_summary_bullets(order, curve_stats, findings_count, max_curve_bullets) ==
    LET core == <<Bullet("analyzed", ""), Bullet("detected", ""), Bullet("risk", ""),
                  Bullet(IF findings_count > 0 THEN "top" ELSE "no_top", "")>>
        capacity == Capacity(Len(core))
        selected_curves == top_curves(order, curve_stats, Min2(max_curve_bullets, capacity))
        with_data == SelectSeq(selected_curves, LAMBDA c : curve_stats[c].count > 0)
        curve_lines == [q \in 1..Len(with_data) |-> Bullet("curve", with_data[q])]
        out == FillTo(core \o curve_lines \o <<Bullet("dq", ""), Bullet("caution", "")>>, 7, 0)
    IN  SubSeq(out, 1, Min2(Len(out), 8))

SummaryCalls ==
    {a \in [op : {"build_summary_bullets"}, order : CurveLists \cup {<<>>},
            curve_stats : [CurveNames -> [count : {0, MaxCount}, spread : {-1, MaxSpread}]],
            findings_count : 0..MaxFindings,
            max_curve_bullets : (0 - 1)..MaxBulletsArg] :
        \A c \in CurveNames :
            /\ c \notin CurveSet(a.order) => a.curve_stats[c] = [count |-> 0, spread |-> -1]
            /\ a.curve_stats[c].count = 0 => a.curve_stats[c].spread = -1}

SummaryBullets ==
    Returns("build_summary_bullets",
            build_summary_bullets(call.order, call.curve_stats, call.findings_count,
                                  call.max_curve_bullets))

HasKind(bullets, kind) == \E k \in 1..Len(bullets) : bullets[k].kind = kind

\* C14: build_summary_bullets returns 7 or 8 bullets, the data-quality line and the
\* caution line among them, whatever the curves, findings and max_curve_bullets
C14_SevenOrEightBullets ==
    lpc = "returned" /\ call.op = "build_summary_bullets" =>
        /\ Len(ret) \in 7..8
        /\ HasKind(ret, "dq") /\ HasKind(ret, "caution")

\* three curves with data and max_curve_bullets above the room left: eight bullets, two of
\* them curve lines
C14_Witness ==
    /\ lpc = "returned" /\ call.op = "build_summary_bullets"
    /\ Len(call.order) = 3 /\ \A c \in CurveNames : call.curve_stats[c].count > 0
    /\ call.max_curve_bullets >= 3
    /\ Len(ret) = 8 /\ Cardinality({k \in 1..8 : ret[k].kind = "curve"}) = 2

\* ------------------------------------------------------------------ wetness index
MIN_JOINT == 5

\* _safe_corr, in Milli: pearson is what np.corrcoef gives for the jointly finite samples
\* and finite whether that is a finite number, joint is their number, flat whether either
\* series has a standard deviation below EPS
safe_corr(pearson, finite, joint, flat) ==
    IF joint < MIN_JOINT THEN 0
    ELSE IF flat THEN 0
    ELSE IF ~finite THEN 0
    ELSE pearson

\* variant: a negative correlation keeps its sign
SignedPart(corr12) == corr12

\* analysis_insight.py 37: max(corr12, 0.0)
PositivePart(corr12) == Max2(corr12, 0)

\* analysis_insight.py 37 and 246: wetnessIndexWh = round(wh, 3), in Milli; the scores
\* arrive in Milli, the correlation too
WetnessIndex(anomaly, corr12, severity) ==
    RoundDiv(Clip(45 * anomaly + 35 * PositivePart(corr12) + 20 * severity, 0, 100 * Milli),
             100)

\* the correlations a pair of curves can show, -0.9 to 1.0
Correlations == {0 - 900, 0 - 100, 0, 50, 900, 1000}

CurvePairs ==
    [pearson : Correlations, finite : BOOLEAN, joint : {MIN_JOINT - 1, MIN_JOINT},
     flat : BOOLEAN]

\* build_insight called twice with the same scores on two pairs of curves; the scores are
\* those analyze passes on
InsightCalls ==
    [op : {"build_insight"}, anomaly_score : {0, 250, 490, 1000},
     severity_conf : {200, 550, 920}, pair : [1..2 -> CurvePairs]]

Wetness ==
    Returns("build_insight",
            [k \in 1..2 |->
                LET corr12 == safe_corr(call.pair[k].pearson, call.pair[k].finite,
                                        call.pair[k].joint, call.pair[k].flat)
                IN  [corr12 |-> corr12,
                     wetnessIndexWh |->
                         WetnessIndex(call.anomaly_score, corr12, call.severity_conf)]])

\* C16: with anomaly_score and severity_conf fixed the wetness index does not decrease as
\* the correlation of the first two curves grows, is strictly higher at a correlation of
\* about 0.9 than at about 0, is the same for a negative correlation as for 0, and lies
\* in [0, 1]
C16_WetnessMonotone ==
    lpc = "returned" /\ call.op = "build_insight" =>
        /\ \A k \in 1..2 : ret[k].wetnessIndexWh \in 0..Milli
        /\ \A a, b \in 1..2 :
               /\ ret[a].corr12 <= ret[b].corr12
                      => ret[a].wetnessIndexWh <= ret[b].wetnessIndexWh
               /\ Abs(ret[a].corr12) <= 100 /\ ret[b].corr12 >= 850
                      => ret[a].wetnessIndexWh < ret[b].wetnessIndexWh
               /\ ret[a].corr12 <= 0 /\ ret[b].corr12 = 0
                      => ret[a].wetnessIndexWh = ret[b].wetnessIndexWh

\* one pair correlated at 0.9, the other at -0.9, the highest scores analyze passes on
C16_Witness ==
    /\ lpc = "returned" /\ call.op = "build_insight"
    /\ call.anomaly_score = 1000 /\ call.severity_conf = 920
    /\ ret[1].corr12 = 0 - 900 /\ ret[2].corr12 = 900
    /\ ret[1].wetnessIndexWh < ret[2].wetnessIndexWh

\* ------------------------------------------------------------------ curve interpretation
\* A curve name is a sequence of characters (one-character strings).
LowerOf ==
    [A |-> "a", B |-> "b", C |-> "c", D |-> "d", E |-> "e", F |-> "f", G |-> "g",
     H |-> "h", I |-> "i", J |-> "j", K |-> "k", L |-> "l", M |-> "m", N |-> "n",
     O |-> "o", P |-> "p", Q |-> "q", R |-> "r", S |-> "s", T |-> "t", U |-> "u",
     V |-> "v", W |-> "w", X |-> "x", Y |-> "y", Z |-> "z"]

UpperLetters == DOMAIN LowerOf
LowerLetters == {LowerOf[u] : u \in UpperLetters}
Digits == {"0", "1", "2", "3", "4", "5", "6", "7", "8", "9"}

\* str.upper, str.isalnum and str.isspace on the characters used
Upper(ch) == IF ch \in LowerLetters THEN CHOOSE u \in UpperLetters : LowerOf[u] = ch ELSE ch
IsAlnum(ch) == ch \in UpperLetters \cup LowerLetters \cup Digits
IsSpace(ch) == ch = " "

\* str.strip
RECURSIVE Strip(_)
Strip(w) ==
    IF w = <<>> THEN w
    ELSE IF IsSpace(Head(w)) THEN Strip(Tail(w))
    ELSE IF IsSpace(w[Len(w)]) THEN Strip(SubSeq(w, 1, Len(w) - 1))
    ELSE w

\* raw.split("__", 1)[0]: the text before the first "__"
BeforeDunder(w) ==
    LET at == {k \in 1..(Len(w) - 1) : w[k] = "_" /\ w[k + 1] = "_"}
    IN  IF at = {} THEN w
        ELSE SubSeq(w, 1, (CHOOSE k \in at : \A j \in at : k <= j) - 1)

\* variant: the characters that are not alphanumeric removed before the split at "__"
curve_tag_clean_first(curve_name) ==
    LET raw == Strip([k \in 1..Len(curve_name) |-> Upper(curve_name[k])])
    IN  BeforeDunder(SelectSeq(raw, IsAlnum))

\* analysis_summary.py 27-31
curve_tag(curve_name) ==
    LET raw == Strip([k \in 1..Len(curve_name) |-> Upper(curve_name[k])])
        base == BeforeDunder(raw)
    IN  SelectSeq(base, IsAlnum)

\* str.startswith
StartsWith(tag, prefix) ==
    Len(tag) >= Len(prefix) /\ SubSeq(tag, 1, Len(prefix)) = prefix

NeutralSentence ==
    "Trend is {trend}; curve-specific domain interpretation requires metadata or companion curves for higher confidence."

\* analysis_summary.py 52-95; mean_val and p90 in Milli, NaN when not finite
curve_interpretation(curve_name, mean_val, p90) ==
    LET tag == curve_tag(curve_name)
    IN  IF StartsWith(tag, <<"G", "R">>) \/ StartsWith(tag, <<"G", "A", "M", "M", "A">>)
        THEN IF IsFinite(mean_val) /\ mean_val >= 100 * Milli
             THEN "Gamma-ray response is high and may indicate shale-prone lithology."
             ELSE IF IsFinite(mean_val) /\ mean_val <= 50 * Milli
             THEN "Gamma-ray response is low and may indicate cleaner sand/carbonate intervals."
             ELSE "Gamma-ray response is moderate, suggesting mixed lithology."
        ELSE IF StartsWith(tag, <<"R", "H", "O", "B">>) \/ StartsWith(tag, <<"D", "E", "N">>)
        THEN IF IsFinite(mean_val) /\ mean_val < 2000
             THEN "Density is low and may indicate elevated porosity or gas effect."
             ELSE IF IsFinite(mean_val) /\ mean_val > 2600
             THEN "Density is high and may indicate tight or mineral-dense rock."
             ELSE "Density stays within a typical reservoir-range envelope."
        ELSE IF \/ StartsWith(tag, <<"N", "P", "H", "I">>) \/ StartsWith(tag, <<"P", "H", "I", "T">>)
                \/ StartsWith(tag, <<"P", "H", "I">>)
        THEN IF IsFinite(mean_val) /\ mean_val > 250
             THEN "Porosity index is elevated and may support reservoir quality."
             ELSE IF IsFinite(mean_val) /\ mean_val < 80
             THEN "Porosity index is low, consistent with tighter intervals."
             ELSE "Porosity index is moderate in the selected depth window."
        ELSE IF \/ StartsWith(tag, <<"R", "E", "S">>) \/ StartsWith(tag, <<"R", "T">>)
                \/ StartsWith(tag, <<"I", "L", "D">>) \/ StartsWith(tag, <<"L", "L", "D">>)
                \/ StartsWith(tag, <<"M", "S", "F", "L">>)
        THEN IF IsFinite(p90) /\ p90 >= 20 * Milli
             THEN "Higher-end resistivity values may indicate hydrocarbon charge or tighter zones."
             ELSE IF IsFinite(mean_val) /\ mean_val <= 2000
             THEN "Lower resistivity suggests more conductive intervals and possible water influence."
             ELSE "Resistivity behavior is intermediate and should be checked with companion curves."
        ELSE NeutralSentence

\* curve names: a word, in capitals or small letters, a separator put after its first
\* letter or not, something before it and something after it
Keywords ==
    {<<"G", "R">>, <<"G", "A", "M", "M", "A">>, <<"R", "H", "O", "B">>,
     <<"D", "E", "N">>, <<"N", "P", "H", "I">>, <<"P", "H", "I", "T">>,
     <<"P", "H", "I">>, <<"R", "E", "S">>, <<"R", "T">>, <<"I", "L", "D">>,
     <<"L", "L", "D">>, <<"M", "S", "F", "L">>}

OtherWords ==
    {<<>>, <<"G">>, <<"G", "A", "M", "M">>, <<"R", "H", "O">>, <<"D", "E">>,
     <<"P", "H">>, <<"R">>, <<"I", "L">>, <<"M", "S", "F">>, <<"X", "Y", "Z">>,
     <<"T", "R">>, <<"R", "G">>, <<"S", "E", "N", "S", "O", "R">>}

Lowered(w) == [k \in 1..Len(w) |-> IF w[k] \in UpperLetters THEN LowerOf[w[k]] ELSE w[k]]

Separated(w, sep) == IF Len(w) >= 2 THEN <<Head(w)>> \o sep \o Tail(w) ELSE w

Separators == {<<>>, <<"_">>, <<"_", "_">>, <<"-">>}
Befores == {<<>>, <<" ">>, <<"_">>, <<"_", "_">>, <<"x">>}
Afters == {<<>>, <<"1">>, <<" ">>, <<"_", "_", "G", "R">>}

CurveNameSet ==
    {b \o Separated(w, sep) \o a :
        b \in Befores, sep \in Separators, a \in Afters,
        w \in Keywords \cup OtherWords
              \cup {Lowered(k) : k \in Keywords \cup OtherWords}}

\* mean and p90 on every side of the thresholds of the four families, and not finite
MeanValues == {NaN, 50, 1500, 2300, 60 * Milli, 120 * Milli}
P90Values == {NaN, 25 * Milli}

InterpretationCalls ==
    [op : {"curve_interpretation"}, curve_name : CurveNameSet, mean_val : MeanValues,
     p90 : P90Values]

CurveInterpretation ==
    Returns("curve_interpretation",
            curve_interpretation(call.curve_name, call.mean_val, call.p90))

\* the tag as the specification words it: capitals, the text from "__" on dropped, only
\* letters and digits kept
NormalizedTag(name) ==
    LET up == Strip([k \in 1..Len(name) |-> Upper(name[k])])
        cut == IF \E k \in 1..(Len(up) - 1) : up[k] = "_" /\ up[k + 1] = "_"
               THEN SubSeq(up, 1, (CHOOSE k \in 1..(Len(up) - 1) :
                                      /\ up[k] = "_" /\ up[k + 1] = "_"
                                      /\ \A j \in 1..(k - 1) : ~(up[j] = "_" /\ up[j + 1] = "_"))
                                  - 1)
               ELSE up
    IN  SelectSeq(cut, LAMBDA ch : IsAlnum(ch))

FamilyPrefixes ==
    <<[family |-> "gamma", prefixes |-> {<<"G", "R">>, <<"G", "A", "M", "M", "A">>}],
      [family |-> "density", prefixes |-> {<<"R", "H", "O", "B">>, <<"D", "E", "N">>}],
      [family |-> "porosity",
       prefixes |-> {<<"N", "P", "H", "I">>, <<"P", "H", "I", "T">>,
                     <<"P", "H", "I">>}],
      [family |-> "resistivity",
       prefixes |-> {<<"R", "E", "S">>, <<"R", "T">>, <<"I", "L", "D">>,
                     <<"L", "L", "D">>, <<"M", "S", "F", "L">>}]>>

Matches(tag, q) == \E pre \in FamilyPrefixes[q].prefixes : StartsWith(tag, pre)

\* the family of the first entry of FamilyPrefixes with a prefix of the tag
FirstFamily(tag) ==
    IF \E q \in 1..Len(FamilyPrefixes) : Matches(tag, q)
    THEN FamilyPrefixes[CHOOSE q \in 1..Len(FamilyPrefixes) :
                            Matches(tag, q) /\ \A j \in 1..(q - 1) : ~Matches(tag, j)].family
    ELSE "none"

SentencesOf ==
    [gamma |-> {"Gamma-ray response is high and may indicate shale-prone lithology.",
                "Gamma-ray response is low and may indicate cleaner sand/carbonate intervals.",
                "Gamma-ray response is moderate, suggesting mixed lithology."},
     density |-> {"Density is low and may indicate elevated porosity or gas effect.",
                  "Density is high and may indicate tight or mineral-dense rock.",
                  "Density stays within a typical reservoir-range envelope."},
     porosity |-> {"Porosity index is elevated and may support reservoir quality.",
                   "Porosity index is low, consistent with tighter intervals.",
                   "Porosity index is moderate in the selected depth window."},
     resistivity |->
         {"Higher-end resistivity values may indicate hydrocarbon charge or tighter zones.",
          "Lower resistivity suggests more conductive intervals and possible water influence.",
          "Resistivity behavior is intermediate and should be checked with companion curves."},
     none |-> {NeutralSentence}]

\* C18: the sentence is one of the family of the first prefix, in the order gamma-ray,
\* density, porosity, resistivity, that the normalized tag starts with; a tag starting
\* with none of the prefixes gets the neutral sentence and a tag starting with one never
\* does
C18_FamilyByPrefix ==
    lpc = "returned" /\ call.op = "curve_interpretation" =>
        LET family == FirstFamily(NormalizedTag(call.curve_name))
        IN  /\ ret \in SentencesOf[family]
            /\ (ret = NeutralSentence) <=> (family = "none")

\* a name in small letters with a separator inside and a suffix after "__" got a
\* resistivity sentence
C18_Witness ==
    /\ lpc = "returned" /\ call.op = "curve_interpretation"
    /\ call.curve_name = <<" ", "r", "-", "t", "_", "_", "G", "R">>
    /\ ret \in SentencesOf["resistivity"]

\* ------------------------------------------------------------------ LLM interpreter
\* The text the model returns is a sequence of tokens: a code fence, the word json, a
\* line break, a JSON object on the result schema, a JSON object that is not on it, a JSON
\* array holding such an object, a JSON number, a word of prose, an opening brace.
MaxTokens == 4

Tokens ==
    {"fence", "json", "newline", "object_on_schema", "object_off_schema", "array_of_objects",
     "number", "word", "brace"}

JsonValues == {"object_on_schema", "object_off_schema", "array_of_objects", "number"}
JsonObjects == {"object_on_schema", "object_off_schema"}

RECURSIVE StripLines(_)
StripLines(t) ==
    IF t = <<>> THEN t
    ELSE IF Head(t) = "newline" THEN StripLines(Tail(t))
    ELSE IF t[Len(t)] = "newline" THEN StripLines(SubSeq(t, 1, Len(t) - 1))
    ELSE t

AfterFirstLine(t) ==
    LET at == {k \in 1..Len(t) : t[k] = "newline"}
    IN  IF at = {} THEN Tail(t)
        ELSE SubSeq(t, (CHOOSE k \in at : \A j \in at : k <= j) + 1, Len(t))

\* the dict raw_decode gives at the first brace it can decode from: an object itself, or
\* the object inside an array
FirstDecodable(t) ==
    LET at == {k \in 1..Len(t) : t[k] \in JsonObjects \cup {"array_of_objects"}}
    IN  IF at = {} THEN "null"
        ELSE LET tok == t[CHOOSE k \in at : \A j \in at : k <= j]
             IN  IF tok = "array_of_objects" THEN "object_off_schema" ELSE tok

\* ai_client_helpers.py 150-180; "null" is None
extract_json_object(text) ==
    IF text = <<>> THEN "null"
    ELSE LET stripped == StripLines(text)
             unfenced == IF stripped # <<>> /\ Head(stripped) = "fence"
                         THEN AfterFirstLine(stripped) ELSE stripped
             closed == IF unfenced # <<>> /\ unfenced[Len(unfenced)] = "fence"
                       THEN SubSeq(unfenced, 1, Len(unfenced) - 1) ELSE unfenced
             bare == StripLines(closed)
             candidate == IF bare # <<>> /\ Head(bare) = "json"
                          THEN StripLines(Tail(bare)) ELSE bare
             values == SelectSeq(candidate, LAMBDA tok : tok # "newline")
         IN  IF Len(values) = 1 /\ values[1] \in JsonValues
             THEN (IF values[1] \in JsonObjects THEN values[1] ELSE "null")
             ELSE FirstDecodable(candidate)

Fallback == [source |-> "fallback", value |-> "fallback_interpretation"]

RECURSIVE TokenTexts(_)
TokenTexts(len) ==
    IF len = 0 THEN {<<>>}
    ELSE LET shorter == TokenTexts(len - 1)
         IN  shorter \cup {Append(t, tok) : t \in {x \in shorter : Len(x) = len - 1},
                                            tok \in Tokens}

\* the client is configured or not; the API call raises, answers without content, or
\* answers with a text
InterpretCalls ==
    {a \in [op : {"interpret_well_data"}, client : BOOLEAN,
            api : {"raises", "no_content", "content"}, content : TokenTexts(MaxTokens)] :
        /\ a.api # "content" => a.content = <<>>
        /\ ~a.client => a.api = "raises"}

\* ai_client.py 27-33
InterpretNoClient ==
    /\ lpc = "called" /\ call.op = "interpret_well_data"
    /\ ~call.client
    /\ ret' = Fallback
    /\ lpc' = "returned"
    /\ UNCHANGED <<call, analysis, services>>

\* ai_client.py 35-108: the prompt is built and the try block entered
InterpretPrompt ==
    /\ lpc = "called" /\ call.op = "interpret_well_data"
    /\ call.client
    /\ lpc' = "requesting"
    /\ UNCHANGED <<call, ret, analysis, services>>

\* ai_client.py 110-127 and 134-139: the request or the read of its content raises
InterpretApiError ==
    /\ lpc = "requesting"
    /\ call.api \in {"raises", "no_content"}
    /\ ret' = Fallback
    /\ lpc' = "returned"
    /\ UNCHANGED <<call, analysis, services>>

\* ai_client.py 127-133
InterpretAnswer ==
    /\ lpc = "requesting"
    /\ call.api = "content"
    /\ \E parsed \in {extract_json_object(StripLines(call.content))} :
           ret' = IF parsed # "null" THEN [source |-> "llm", value |-> parsed] ELSE Fallback
    /\ lpc' = "returned"
    /\ UNCHANGED <<call, analysis, services>>

\* the text holds a JSON object on the result schema
HoldsSchemaObject(text) == \E k \in 1..Len(text) : text[k] = "object_on_schema"

\* C13: interpret_well_data returns the deterministic fallback when no client is
\* configured, when the API call raises, and when the content is empty, is not JSON, is
\* JSON but not an object, or is not on the result schema; what it returns from the LLM
\* is an object on the result schema
C13_FallbackUnlessOnSchema ==
    lpc = "returned" /\ call.op = "interpret_well_data" =>
        /\ ret.source \in {"fallback", "llm"}
        /\ ret.source = "llm" => ret.value = "object_on_schema"
        /\ (~call.client \/ call.api # "content" \/ ~HoldsSchemaObject(call.content))
               => ret = Fallback

\* ------------------------------------------------------------------ trend labels
MaxSamples == 21

\* the label of the relative change of the tail window against the head window; the
\* windows are w samples long, so mean(tail) - mean(head) over
\* max(|mean(head)|, |mean(tail)|, 1e-9) is compared through the window sums
TrendOf(values, up, down, flat) ==
    LET cnt == Len(values)
        window == Max2(3, cnt \div 5)
        head == SumSeq(SubSeq(values, 1, window))
        tail == SumSeq(SubSeq(values, cnt - window + 1, cnt))
        scale == Max2(Abs(head), Abs(tail))
    IN  IF scale = 0 THEN flat
        ELSE IF 100 * (tail - head) >= 8 * scale THEN up
        ELSE IF 100 * (tail - head) <= 0 - 8 * scale THEN down
        ELSE flat

\* variant: the floor of the diagnostics applied to the curve statistics
trend_label_floor_12(values) ==
    IF Len(values) < 12 THEN "insufficient"
    ELSE TrendOf(values, "increasing", "decreasing", "stable")

\* analysis_summary.py 34-49 (the window means of finite samples are finite)
trend_label(values) ==
    IF Len(values) < 6 THEN "insufficient"
    ELSE TrendOf(values, "increasing", "decreasing", "stable")

\* ai_client_helpers.py 35-51
helpers_trend_label(values) ==
    IF Len(values) < 12 THEN "insufficient points"
    ELSE TrendOf(values, "increasing with depth", "decreasing with depth", "mostly stable")

\* routes/copilot.py 48-66
copilot_trend_label(values) ==
    IF Len(values) < 12 THEN "insufficient points for trend"
    ELSE TrendOf(values, "increasing with depth", "decreasing with depth", "mostly stable")

\* the samples of a curve: nulls missing samples, then cnt finite ones: three at the
\* level head, the last three at the level tail, the others at the level mid
Sample(finite, x) == [finite |-> finite, x |-> x]

TrendSamples(nulls, cnt, head, mid, tail) ==
    [k \in 1..(nulls + cnt) |->
        IF k <= nulls THEN Sample(FALSE, 0)
        ELSE IF k - nulls > cnt - 3 THEN Sample(TRUE, tail)
        ELSE IF k - nulls <= 3 THEN Sample(TRUE, head)
        ELSE Sample(TRUE, mid)]

\* _finite_curve_pairs, _curve_pairs and the _safe_float loop: the finite values
FiniteValues(samples) ==
    LET kept == SelectSeq(samples, LAMBDA s : s.finite)
    IN  [k \in 1..Len(kept) |-> kept[k].x]

TrendLevels == {0 - 100, 0 - 92, 0, 92, 100, 108, 109}

\* the curve statistics ask for the trend of a curve with a finite sample, the
\* diagnostics and the copilot for the trend of a curve with three valid points
TrendCalls ==
    {a \in [op : {"trend_label", "helpers_trend_label", "copilot_trend_label"},
            nulls : {0, 3}, cnt : 1..MaxSamples, head : TrendLevels, mid : {100, 500},
            tail : TrendLevels] :
        a.op # "trend_label" => a.cnt >= 3}

CallSamples == TrendSamples(call.nulls, call.cnt, call.head, call.mid, call.tail)

TrendLabelStatistics == Returns("trend_label", trend_label(FiniteValues(CallSamples)))

TrendLabelDiagnostics ==
    Returns("helpers_trend_label", helpers_trend_label(FiniteValues(CallSamples)))

TrendLabelCopilot ==
    Returns("copilot_trend_label", copilot_trend_label(FiniteValues(CallSamples)))

\* the finite samples of the call, counted and summed over the two windows
FiniteCount == Cardinality({k \in 1..Len(CallSamples) : CallSamples[k].finite})
FiniteAt(q) ==
    CallSamples[CHOOSE k \in 1..Len(CallSamples) :
                    /\ CallSamples[k].finite
                    /\ Cardinality({m \in 1..k : CallSamples[m].finite}) = q].x
WindowSum(first, last) ==
    SumSeq([q \in 1..(last - first + 1) |-> FiniteAt(first + q - 1)])

Direction ==
    LET window == IF FiniteCount \div 5 > 3 THEN FiniteCount \div 5 ELSE 3
        head == WindowSum(1, window)
        tail == WindowSum(FiniteCount - window + 1, FiniteCount)
        scale == IF Abs(head) >= Abs(tail) THEN Abs(head) ELSE Abs(tail)
    IN  IF scale > 0 /\ 25 * (tail - head) >= 2 * scale THEN "up"
        ELSE IF scale > 0 /\ 25 * (head - tail) >= 2 * scale THEN "down"
        ELSE "flat"

\* C24: the trend label of the curve statistics is "insufficient" exactly below 6 finite
\* samples, the trend labels of the LLM diagnostics and of the copilot are their
\* insufficient label exactly below 12; above its floor each reports the relative change
\* of the mean of the last max(3, n div 5) samples against the first: increasing from
\* +0.08, decreasing from -0.08, stable between
C24_TrendFloors ==
    lpc = "returned" /\ call.op \in {"trend_label", "helpers_trend_label",
                                     "copilot_trend_label"} =>
        \A cnt \in {FiniteCount} : \A dir \in {IF cnt >= 6 THEN Direction ELSE "none"} :
            /\ call.op = "trend_label" =>
                   ret = IF cnt < 6 THEN "insufficient"
                         ELSE IF dir = "up" THEN "increasing"
                         ELSE IF dir = "down" THEN "decreasing"
                         ELSE "stable"
            /\ call.op = "helpers_trend_label" =>
                   ret = IF cnt < 12 THEN "insufficient points"
                         ELSE IF dir = "up" THEN "increasing with depth"
                         ELSE IF dir = "down" THEN "decreasing with depth"
                         ELSE "mostly stable"
            /\ call.op = "copilot_trend_label" =>
                   ret = IF cnt < 12 THEN "insufficient points for trend"
                         ELSE IF dir = "up" THEN "increasing with depth"
                         ELSE IF dir = "down" THEN "decreasing with depth"
                         ELSE "mostly stable"

\* eleven finite samples rising by exactly 8%: the curve statistics report a trend
C24_Witness ==
    /\ lpc = "returned" /\ call.op = "trend_label"
    /\ call.cnt = 11 /\ call.nulls = 3 /\ call.head = 92 /\ call.tail = 100
    /\ ret = "increasing"


\* ------------------------------------------------------------------ helper calls
InitLib ==
    /\ NoAnalysis
    /\ call \in SummaryCalls \cup InsightCalls \cup InterpretationCalls \cup InterpretCalls
                \cup TrendCalls
    /\ ret = <<>>
    /\ lpc = "called"
    /\ ServicesOff

NextLib ==
    \/ SummaryBullets
    \/ Wetness
    \/ CurveInterpretation
    \/ InterpretNoClient
    \/ InterpretPrompt
    \/ InterpretApiError
    \/ InterpretAnswer
    \/ TrendLabelStatistics
    \/ TrendLabelDiagnostics
    \/ TrendLabelCopilot

SpecLib == InitLib /\ [][NextLib]_vars

\* ------------------------------------------------------------------ AI client cache
\* A key or a model name is a text, written as a sequence of pieces: "K20" stands for
\* twenty characters of key material, "s" and "m" for one character, "|" and "your_key"
\* for themselves.
PieceLen(t) == IF t = "K20" THEN 20 ELSE IF t = "your_key" THEN 8 ELSE 1

TextLen(text) == SumSeq([k \in 1..Len(text) |-> PieceLen(text[k])])

Contains(text, piece) == \E k \in 1..Len(text) : text[k] = piece

\* ai_provider.py 22-23
is_placeholder(key) ==
    \/ key = <<>>
    \/ Contains(key, "your_key")
    \/ Contains(key, "sk-proj-XXX")
    \/ TextLen(key) < 20

\* ai_provider.py 26: f"{groq_key}|{openai_key}|{preferred_model}"
Signature(groq_key, openai_key, preferred_model) ==
    groq_key \o <<"|">> \o openai_key \o <<"|">> \o preferred_model

\* variant: the three fields kept apart
SignatureTuple(groq_key, openai_key, preferred_model) ==
    <<groq_key, openai_key, preferred_model>>

GroqKeys == {<<>>, <<"K20">>, <<"s">>, <<"your_key", "K20">>}
OpenAIKeys == {<<>>, <<"K20">>, <<"|">>, <<"K20", "|">>}
PrimaryModels == {<<>>, <<"m">>, <<"|", "m">>}

Configurations ==
    [GROQ_API_KEY : GroqKeys, OPENAI_API_KEY : OpenAIKeys, LLM_PRIMARY : PrimaryModels]

MaxClients == 2

\* the environment or the settings object is changed between two calls
Configure ==
    /\ lpc = "off"
    /\ built < MaxClients
    /\ settings' \in Configurations \ {settings}
    /\ UNCHANGED <<call, ret, lpc, analysis, client, provider, model_name, client_sig,
                   built, got, llm_log>>

\* ai_provider.py 15-45: one call of get_ai_client
get_ai_client ==
    /\ lpc = "off"
    /\ built < MaxClients
    /\ LET groq_key == settings.GROQ_API_KEY
           openai_key == settings.OPENAI_API_KEY
           preferred_model == settings.LLM_PRIMARY
           next_sig == Signature(groq_key, openai_key, preferred_model)
           stale == client # NoClient /\ client_sig # next_sig
           kept == IF stale THEN NoClient ELSE client
           use == IF kept # NoClient THEN "cached"
                  ELSE IF ~is_placeholder(groq_key) THEN "groq"
                  ELSE IF ~is_placeholder(openai_key) THEN "openai"
                  ELSE "none"
           new_client ==
               IF use = "cached" THEN client
               ELSE IF use = "groq"
               THEN [id |-> built + 1, api_key |-> groq_key,
                     base_url |-> "https://api.groq.com/openai/v1"]
               ELSE IF use = "openai"
               THEN [id |-> built + 1, api_key |-> openai_key, base_url |-> ""]
               ELSE NoClient
           new_provider ==
               IF use = "cached" THEN provider
               ELSE IF use = "groq" THEN "GROQ"
               ELSE IF use = "openai" THEN "OPENAI"
               ELSE "NONE"
           new_model ==
               IF use = "cached" THEN model_name
               ELSE IF use = "groq"
               THEN (IF preferred_model # <<>> THEN preferred_model
                     ELSE <<"llama-3.3-70b-versatile">>)
               ELSE IF use = "openai"
               THEN (IF preferred_model # <<>> THEN preferred_model ELSE <<"gpt-4o">>)
               ELSE <<>>
       IN  /\ client' = new_client
           /\ provider' = new_provider
           /\ model_name' = new_model
           /\ client_sig' = next_sig
           /\ built' = IF use \in {"groq", "openai"} THEN built + 1 ELSE built
           /\ got' = [client |-> new_client, provider |-> new_provider,
                      model_name |-> new_model, settings |-> settings,
                      cached |-> client, built_before |-> built,
                      cached_under |-> IF got = <<>> THEN <<>> ELSE got.settings]
    /\ UNCHANGED <<call, ret, lpc, analysis, settings, llm_log>>

InitClient ==
    /\ NoAnalysis
    /\ call = <<>> /\ ret = <<>> /\ lpc = "off"
    /\ ServicesOff

NextClient ==
    \/ Configure
    \/ get_ai_client

SpecClient == InitClient /\ [][NextClient]_vars

\* what a configuration asks for: provider and model
Usable(key) ==
    /\ key # <<>>
    /\ \A k \in 1..Len(key) : key[k] \notin {"your_key", "sk-proj-XXX"}
    /\ TextLen(key) >= 20

Asked(cfg) ==
    IF Usable(cfg.GROQ_API_KEY)
    THEN [provider |-> "GROQ", api_key |-> cfg.GROQ_API_KEY,
          model_name |-> IF cfg.LLM_PRIMARY = <<>> THEN <<"llama-3.3-70b-versatile">>
                         ELSE cfg.LLM_PRIMARY]
    ELSE IF Usable(cfg.OPENAI_API_KEY)
    THEN [provider |-> "OPENAI", api_key |-> cfg.OPENAI_API_KEY,
          model_name |-> IF cfg.LLM_PRIMARY = <<>> THEN <<"gpt-4o">> ELSE cfg.LLM_PRIMARY]
    ELSE [provider |-> "NONE", api_key |-> <<>>, model_name |-> <<>>]

\* C25: a call under the configuration of the previous call returns the cached client and
\* constructs none; a call under another configuration (Groq key, OpenAI key or preferred
\* model changed) does not return the client cached before it; the provider and the
\* model returned are the ones the configuration in force asks for, Groq before OpenAI,
\* placeholder keys rejected; without a usable key the result is (no client, NONE, "")
C25_ClientFollowsConfiguration ==
    got # <<>> =>
        /\ got.cached # NoClient /\ got.cached_under = got.settings =>
               /\ got.client = got.cached
               /\ built = got.built_before
        /\ got.cached # NoClient /\ got.cached_under # got.settings =>
               got.client # got.cached
        /\ got.provider = Asked(got.settings).provider
        /\ got.model_name = Asked(got.settings).model_name
        /\ Asked(got.settings).provider = "NONE" =>
               got.client = NoClient /\ got.provider = "NONE" /\ got.model_name = <<>>

\* the same statement for keys and model names free of the character "|"
BarFree(cfg) ==
    \A f \in {"GROQ_API_KEY", "OPENAI_API_KEY", "LLM_PRIMARY"} : ~Contains(cfg[f], "|")

C25_HoldsWithoutBars ==
    got # <<>> /\ BarFree(got.settings)
        /\ (got.cached_under # <<>> => BarFree(got.cached_under)) =>
            /\ got.cached # NoClient /\ got.cached_under = got.settings =>
                   got.client = got.cached /\ built = got.built_before
            /\ got.cached # NoClient /\ got.cached_under # got.settings =>
                   got.client # got.cached
            /\ got.provider = Asked(got.settings).provider
            /\ got.model_name = Asked(got.settings).model_name

\* ------------------------------------------------------------------ copilot service
\* the words re.findall(r"[A-Za-z0-9_]+", ...) can find in a question or a curve name
Words == {"GR", "gr", "rhob", "what", "x", "risk"}

Lower(w) == IF w = "GR" THEN "gr" ELSE w
WordLen(w) == IF w = "x" THEN 1 ELSE IF w = "GR" \/ w = "gr" THEN 2 ELSE 4

\* copilot_service.py 47-53, the words of it a question of the model can hold
STOPWORDS == {"what", "anomaly", "spike"}

\* copilot_service.py 100-109
tokenize_question(question) ==
    {Lower(w) : w \in {v \in question : WordLen(v) >= 2 /\ Lower(v) \notin STOPWORDS}}

\* copilot_service.py 111-149, for evidence without band, narrative or insight text
known_tokens(req) ==
    {Lower(req.curves[k]) : k \in 1..Len(req.curves)}
        \cup {"hc1", "hc2", "hc3", "hc4", "hc5", "hc6", "anomaly", "spike", "risk"}

\* copilot_service.py 152-165: the unknown tokens; the focus is the first of them
detect_unknown_focus(req) ==
    LET q_tokens == tokenize_question(req.question)
    IN  {t \in q_tokens : t \notin known_tokens(req) /\ WordLen(t) >= 2}

\* copilot_service.py 55-57
is_bad_key(key) == key = <<>> \/ Contains(key, "your_key") \/ TextLen(key) < 20

\* (os.getenv(name) or default).strip() for a value that is unset, blank or a name
EnvName(value, default) ==
    IF value = "" THEN default ELSE IF value = " " THEN "" ELSE value

\* variant: the first fallback tried before the primary model
models_fallback_first(env) ==
    <<EnvName(env.LLM_FALLBACK_1, ""), EnvName(env.LLM_PRIMARY, "llama-3.3-70b-versatile"),
      EnvName(env.LLM_FALLBACK_2, "")>>

\* copilot_service.py 346-353: [primary, fb1, fb2]
models_in_order(env) ==
    <<EnvName(env.LLM_PRIMARY, "llama-3.3-70b-versatile"), EnvName(env.LLM_FALLBACK_1, ""),
      EnvName(env.LLM_FALLBACK_2, "")>>

\* what a model call can bring: an exception, or a completion whose content is empty,
\* prose, a JSON array, a JSON object, a JSON object in a fence, or the object {}
Answers == {"raises", "empty", "prose", "array", "object", "fenced_object", "empty_object"}

\* copilot_service.py 59-97: the dict found in the content, with its number of keys, or
\* no dict (None)
extract_json(content) ==
    IF content \in {"object", "fenced_object"} THEN [dict |-> TRUE, keys |-> 1]
    ELSE IF content = "empty_object" THEN [dict |-> TRUE, keys |-> 0]
    ELSE [dict |-> FALSE, keys |-> 0]

\* copilot_service.py 358: out and isinstance(out, dict)
Truthy(out) == out.dict /\ out.keys > 0

CopilotRequests ==
    [op : {"copilot_query"},
     question : {{}, {"what"}, {"GR"}, {"rhob"}, {"x", "what"}, {"gr", "rhob"},
                 {"risk", "gr"}},
     curves : {<<>>, <<"GR">>},
     key : {<<>>, <<"K20">>, <<"your_key", "K20">>},
     env : [LLM_PRIMARY : {"", " ", "p"}, LLM_FALLBACK_1 : {"", "f1"},
            LLM_FALLBACK_2 : {"", "f2"}]]

Response(source, llm_used, llm_model, llm_error) ==
    [ok |-> TRUE, source |-> source, llm_used |-> llm_used, llm_model |-> llm_model,
     llm_error |-> llm_error]

CopilotIdle == <<analysis, settings, client, provider, model_name, client_sig, built, got>>

\* copilot_service.py 395-412
GroundedGuard ==
    /\ lpc = "called" /\ call.op = "copilot_query"
    /\ detect_unknown_focus(call) # {}
    /\ ret' = Response("grounded_guard", FALSE, None, "asked_entity_not_in_evidence")
    /\ lpc' = "returned"
    /\ UNCHANGED <<call, llm_log, CopilotIdle>>

\* copilot_service.py 341-344: the key is rejected before any call
KeyRejected ==
    /\ lpc = "called" /\ call.op = "copilot_query"
    /\ detect_unknown_focus(call) = {}
    /\ is_bad_key(call.key)
    /\ lpc' = "fallback"
    /\ UNCHANGED <<call, ret, llm_log, CopilotIdle>>

\* copilot_service.py 346-353
StartModels ==
    /\ lpc = "called" /\ call.op = "copilot_query"
    /\ detect_unknown_focus(call) = {}
    /\ ~is_bad_key(call.key)
    /\ lpc' = "model1"
    /\ UNCHANGED <<call, ret, llm_log, CopilotIdle>>

ModelPc(i) == IF i = 1 THEN "model1" ELSE IF i = 2 THEN "model2" ELSE "model3"
AfterModel(i) == IF i = 3 THEN "fallback" ELSE ModelPc(i + 1)

\* copilot_service.py 353-355: an empty name is skipped
SkipModel(i) ==
    /\ lpc = ModelPc(i)
    /\ models_in_order(call.env)[i] = ""
    /\ lpc' = AfterModel(i)
    /\ UNCHANGED <<call, ret, llm_log, CopilotIdle>>

\* copilot_service.py 356-362 with 327-339 and 419-435: one model is called
CallModel(i) ==
    /\ lpc = ModelPc(i)
    /\ \E model \in {models_in_order(call.env)[i]} : \E answer \in Answers :
          /\ model # ""
          /\ llm_log' = Append(llm_log, [model |-> model, answer |-> answer])
          /\ IF answer # "raises" /\ Truthy(extract_json(answer))
             THEN /\ ret' = Response("llm", TRUE, model, None)
                  /\ lpc' = "returned"
             ELSE /\ lpc' = AfterModel(i)
                  /\ UNCHANGED ret
    /\ UNCHANGED <<call, CopilotIdle>>

\* copilot_service.py 364 and 436-455
PythonFallback ==
    /\ lpc = "fallback"
    /\ ret' = Response("python_fallback", FALSE, None,
                       IF is_bad_key(call.key) THEN "GROQ_API_KEY missing/invalid format"
                       ELSE IF llm_log = <<>> THEN "all_models_failed"
                       ELSE "errors")
    /\ lpc' = "returned"
    /\ UNCHANGED <<call, llm_log, CopilotIdle>>

InitCopilot ==
    /\ NoAnalysis
    /\ call \in CopilotRequests
    /\ ret = <<>>
    /\ lpc = "called"
    /\ ServicesOff

NextCopilot ==
    \/ GroundedGuard
    \/ KeyRejected
    \/ StartModels
    \/ \E i \in 1..3 : SkipModel(i)
    \/ \E i \in 1..3 : CallModel(i)
    \/ PythonFallback

SpecCopilot == InitCopilot /\ [][NextCopilot]_vars

\* the question holds a token (a word of two characters or more that is not a stop word)
\* that is neither a curve of the request nor an always-known word
AsksUnknown ==
    \E w \in call.question :
        /\ WordLen(w) >= 2
        /\ Lower(w) \notin {"what", "anomaly", "spike"}
        /\ Lower(w) \notin {"hc1", "hc2", "hc3", "hc4", "hc5", "hc6", "risk"}
        /\ \A k \in 1..Len(call.curves) : Lower(call.curves[k]) # Lower(w)

KeyValid ==
    /\ call.key # <<>>
    /\ \A k \in 1..Len(call.key) : call.key[k] # "your_key"
    /\ TextLen(call.key) >= 20

\* the models of the environment in the order primary, fallback 1, fallback 2, the empty
\* names left out
NamedModels ==
    LET name(v, default) == IF v = "" THEN default ELSE IF v = " " THEN "" ELSE v
        all == <<name(call.env.LLM_PRIMARY, "llama-3.3-70b-versatile"),
                 name(call.env.LLM_FALLBACK_1, ""), name(call.env.LLM_FALLBACK_2, "")>>
    IN  SelectSeq(all, LAMBDA v : v # "")

\* the answers that count as a result
OrderWith(results) ==
    lpc = "returned" /\ call.op = "copilot_query" =>
        /\ ret.ok
        /\ ret.llm_used <=> ret.source = "llm"
        /\ AsksUnknown => ret.source = "grounded_guard" /\ llm_log = <<>>
        /\ ~AsksUnknown /\ ~KeyValid => ret.source = "python_fallback" /\ llm_log = <<>>
        /\ ~AsksUnknown /\ KeyValid =>
               /\ Len(llm_log) <= Len(NamedModels)
               /\ \A k \in 1..Len(llm_log) : llm_log[k].model = NamedModels[k]
               /\ \A k \in 1..Len(llm_log) :
                      llm_log[k].answer \in results =>
                          /\ k = Len(llm_log)
                          /\ ret.source = "llm" /\ ret.llm_model = llm_log[k].model
               /\ (\A k \in 1..Len(llm_log) : llm_log[k].answer \notin results) =>
                      /\ Len(llm_log) = Len(NamedModels)
                      /\ ret.source = "python_fallback"

====
